---- MODULE Spec2Model ----
(***************************************************************************)
(* A model of pygubu's builder-object layer:                               *)
(*   - the two process-wide registries (CLASS_MAP, CUSTOM_PROPERTIES) and  *)
(*     their registration functions (pygubu/builder/builderobject.py);     *)
(*   - the BuilderObject variants of pygubu/builder/ttkstdwidgets.py and   *)
(*     their realize / configure / layout / add_child / connect_commands.  *)
(* Python dicts are functions over their key set, ordered dicts (property  *)
(* bags) are sequences of [name, value] records with distinct names, and   *)
(* the toolkit is a recorder: every call made on a widget is appended to   *)
(* `calls`.                                                                *)
(***************************************************************************)
EXTENDS Integers, Sequences, FiniteSets, TLC

VARIABLES
    CLASS_MAP,          \* builderobject.CLASS_MAP: classname -> WidgetDescription
    CUSTOM_PROPERTIES,  \* builderobject.CUSTOM_PROPERTIES: name -> description dict
    wcalls,             \* history: classname -> arguments of its latest register_widget call
    lastReg,            \* history: the last register_property call and what it found
    bo,                 \* the builder object: its variant and its widget
    wmeta,              \* the node's metadata (bo.wmeta)
    parent,             \* the parent builder object
    cmd_bag,            \* the caller's bag handed to connect_commands
    phase,              \* position in the node's build
    calls,              \* toolkit calls made so far, in order
    tk_rejects,         \* the property names whose value the toolkit rejects (TclError)
    log,                \* logger records emitted so far
    result,             \* outcome of the last operation
    nops,               \* number of calls made of each operation
    code,               \* source statements emitted by the code_* methods, by method
    tree                \* the builder objects of a whole tree while it is built

vars == <<CLASS_MAP, CUSTOM_PROPERTIES, wcalls, lastReg, bo, wmeta, parent, cmd_bag,
          phase, calls, tk_rejects, log, result, nops, code, tree>>

regVars == <<CLASS_MAP, CUSTOM_PROPERTIES, wcalls, lastReg>>
boVars ==
    <<bo, wmeta, parent, cmd_bag, phase, calls, tk_rejects, log, result, nops, code, tree>>
genVars == <<code, tree>>

----------------------------------------------------------------------------
(* Python values *)

\* an optional argument: None (also the default when omitted) or a value
NoneArg == [isNone |-> TRUE]
Some(x) == [isNone |-> FALSE, val |-> x]

\* the empty dict
EmptyDict == [k \in {} |-> k]

\* d.update(e) for dicts d, e
dict_update(d, e) ==
    [k \in (DOMAIN d) \cup (DOMAIN e) |-> IF k \in DOMAIN e THEN e[k] ELSE d[k]]

\* d with d[k] = v assigned
dict_set(d, k, v) == [j \in (DOMAIN d) \cup {k} |-> IF j = k THEN v ELSE d[j]]

----------------------------------------------------------------------------
(* Bounds of the registry inputs *)

RegClassNames == {"ttk.Frame", "ttk.Button", "my.Widget"}
RegBuilders == {"TTKFrame", "MyBuilder"}
RegLabels == {"Frame"}
RegTags == {<<>>, <<"Containers", "ttk">>}
RegPropNames == {"p1", "p2"}
RegBuilderUids == {"u1", "u2"}
RegEditors == {"entry"}
RegDefaults == {"d"}
RegHelps == {"h"}

\* descriptions handed directly to register_property
RegDescriptions ==
    { ("editor" :> "choice") @@ ("params" :> ("values" :> "x")),
      ("help" :> "h0"),
      ("u1" :> ("default" :> "d0")) }

\* **editor_params of register_custom_property
RegEditorParams == { EmptyDict, ("values" :> "x") }

----------------------------------------------------------------------------
(* Registry: builderobject.py lines 49-101 *)

WidgetDescription(classname, builder, label, tags) ==
    [classname |-> classname, builder |-> builder, label |-> label, tags |-> tags]

NoReg == [name |-> "", hadOld |-> FALSE, old |-> EmptyDict, desc |-> EmptyDict]

RegistryInit ==
    /\ CLASS_MAP = EmptyDict
    /\ CUSTOM_PROPERTIES = EmptyDict
    /\ wcalls = EmptyDict
    /\ lastReg = NoReg

\* register_widget that forgets the entries of the other names
register_widget_map_reset(map, classname, builder, label, tags) ==
    LET label2 == IF label.isNone THEN classname ELSE label.val
        tags2 == IF tags.isNone THEN <<>> ELSE tags.val
    IN  dict_set(EmptyDict, classname,
                 WidgetDescription(classname, builder, label2, tags2))

\* the next CLASS_MAP after register_widget(classname, builder, label, tags)
register_widget_map(map, classname, builder, label, tags) ==
    LET label2 == IF label.isNone THEN classname ELSE label.val
        tags2 == IF tags.isNone THEN <<>> ELSE tags.val
    IN  dict_set(map, classname, WidgetDescription(classname, builder, label2, tags2))

register_widget(classname, builder, label, tags) ==
    /\ CLASS_MAP' = register_widget_map(CLASS_MAP, classname, builder, label, tags)
    /\ wcalls' = dict_set(wcalls, classname,
                          [builder |-> builder, label |-> label, tags |-> tags,
                           again |-> classname \in DOMAIN CLASS_MAP])
    /\ UNCHANGED <<CUSTOM_PROPERTIES, lastReg>>

\* register_property that replaces an existing descriptor wholesale
register_property_map_replace(map, name, description) ==
    dict_set(map, name, description)

\* the keys of a description that hold a nested dict
NestedKeys == RegBuilderUids \cup {"params"}

\* register_property that merges nested dicts field by field
register_property_map_deep(map, name, description) ==
    IF name \in DOMAIN map
    THEN dict_set(map, name,
            [k \in (DOMAIN map[name]) \cup (DOMAIN description) |->
                IF k \in DOMAIN description
                THEN IF k \in DOMAIN map[name] /\ k \in NestedKeys
                     THEN dict_update(map[name][k], description[k])
                     ELSE description[k]
                ELSE map[name][k]])
    ELSE dict_set(map, name, description)

\* the next CUSTOM_PROPERTIES after register_property(name, description)
register_property_map(map, name, description) ==
    IF name \in DOMAIN map
    THEN dict_set(map, name, dict_update(map[name], description))
    ELSE dict_set(map, name, description)

register_property(name, description) ==
    /\ CUSTOM_PROPERTIES' = register_property_map(CUSTOM_PROPERTIES, name, description)
    /\ lastReg' = [name |-> name,
                   hadOld |-> name \in DOMAIN CUSTOM_PROPERTIES,
                   old |-> IF name \in DOMAIN CUSTOM_PROPERTIES
                           THEN CUSTOM_PROPERTIES[name] ELSE EmptyDict,
                   desc |-> description]
    /\ UNCHANGED <<CLASS_MAP, wcalls>>

\* the description built by register_custom_property
custom_description(builder_uid, editor, default_value, help, editor_params) ==
    LET params == dict_update(("mode" :> editor), editor_params)
        d0 == ("params" :> params)
        d1 == IF default_value.isNone THEN d0
              ELSE dict_set(d0, "default", default_value.val)
        d2 == IF help.isNone THEN d1 ELSE dict_set(d1, "help", help.val)
    IN  ("editor" :> "dynamic") @@ (builder_uid :> d2)

register_custom_property(builder_uid, prop_name, editor, default_value, help, editor_params) ==
    register_property(prop_name,
        custom_description(builder_uid, editor, default_value, help, editor_params))

----------------------------------------------------------------------------
(* The BuilderObject variants: ttkstdwidgets.py class attributes *)

\* TTKWidgetBO option groups
OPTIONS_LABEL == {"text", "textvariable", "underline", "image", "compound", "width"}
OPTIONS_COMPATIBILITY == {"state"}
OPTIONS_STANDARD == {"class_", "cursor", "takefocus", "style"}

TTKFrame_OPTIONS_SPECIFIC == {"borderwidth", "relief", "padding", "height", "width"}

TTKEntry_properties ==
    OPTIONS_STANDARD \cup {"xscrollcommand"}
    \cup {"exportselection", "font", "invalidcommand", "justify", "show", "state",
          "textvariable", "validate", "validatecommand", "width"}
    \cup {"text"}

\* the builder classes modelled
Builders ==
    {"TTKFrame", "TTKLabelframe", "TTKButton", "TTKEntry", "TTKPanedwindow",
     "TTKPanedwindowPane", "TTKNotebookTab", "TTKNotebook", "TTKTreeviewBO",
     "TTKTreeviewColumnBO"}

\* cls.properties
properties(cls) ==
    CASE cls = "TTKFrame" -> OPTIONS_STANDARD \cup TTKFrame_OPTIONS_SPECIFIC
      [] cls = "TTKLabelframe" ->
            OPTIONS_STANDARD \cup TTKFrame_OPTIONS_SPECIFIC
            \cup {"labelanchor", "text", "underline"}
      [] cls = "TTKButton" ->
            OPTIONS_STANDARD \cup OPTIONS_LABEL \cup OPTIONS_COMPATIBILITY
            \cup {"command", "default"}
      [] cls = "TTKEntry" -> TTKEntry_properties
      [] cls = "TTKPanedwindow" -> OPTIONS_STANDARD \cup {"orient", "height", "width"}
      [] cls = "TTKPanedwindowPane" -> {"weight"}
      [] cls = "TTKNotebookTab" ->
            {"state", "sticky", "padding", "text", "image", "compound", "underline"}
      [] cls = "TTKNotebook" -> OPTIONS_STANDARD \cup {"height", "padding", "width"}
      [] cls = "TTKTreeviewBO" ->
            OPTIONS_STANDARD \cup {"xscrollcommand", "yscrollcommand"}
            \cup {"height", "padding", "selectmode", "show"}
      [] cls = "TTKTreeviewColumnBO" ->
            {"text", "image", "command", "heading_anchor", "column_anchor", "minwidth",
             "stretch", "width"} \cup {"tree_column", "visible"}

\* cls.ro_properties, in tuple order
ro_properties(cls) ==
    IF cls = "TTKPanedwindow" THEN <<"class_", "orient">> ELSE <<"class_">>

\* cls.command_properties, in tuple order
command_properties(cls) ==
    CASE cls \in {"TTKButton", "TTKTreeviewColumnBO"} -> <<"command">>
      [] cls = "TTKEntry" -> <<"validatecommand", "invalidcommand", "xscrollcommand">>
      [] OTHER -> <<>>

\* cls.class_: the wrapped toolkit class ("None" for the helpers)
class_(cls) ==
    CASE cls = "TTKFrame" -> "ttk.Frame"
      [] cls = "TTKLabelframe" -> "ttk.Labelframe"
      [] cls = "TTKButton" -> "ttk.Button"
      [] cls = "TTKEntry" -> "ttk.Entry"
      [] cls = "TTKPanedwindow" -> "ttk.Panedwindow"
      [] cls = "TTKNotebook" -> "ttk.Notebook"
      [] cls = "TTKTreeviewBO" -> "ttk.Treeview"
      [] OTHER -> "None"

layout_required(cls) ==
    cls \notin {"TTKPanedwindowPane", "TTKNotebookTab", "TTKTreeviewColumnBO"}

container_layout(cls) == cls \in {"TTKFrame", "TTKLabelframe"}

\* the classes that inherit the named base class or override
IsEntryBaseBO(cls) == cls = "TTKEntry"
IsPanedWindowBO(cls) == cls = "TTKPanedwindow"
\* the helper variants: realize borrows the parent's widget, configure and
\* layout are overridden with pass, add_child adds to the parent
IsHelper(cls) == cls \in {"TTKPanedwindowPane", "TTKNotebookTab"}
\* the tree column helper: realize borrows the parent's widget and hands the
\* column to the parent, configure and layout are overridden with pass
IsTreeviewColumn(cls) == cls = "TTKTreeviewColumnBO"
IsTreeview(cls) == cls = "TTKTreeviewBO"

tkvar_properties == {"listvariable", "textvariable", "variable"}
tkimage_properties == {"image", "selectimage", "iconphoto"}

SeqToSet(s) == {s[i] : i \in DOMAIN s}

\* CLASS_MAP after the module-level register_widget calls of ttkstdwidgets.py
StdRegistrations ==
    << <<"ttk.Frame", "TTKFrame", "Frame", <<"Containers", "ttk">> >>,
       <<"ttk.Button", "TTKButton", "Button", <<"Control & Display", "ttk">> >>,
       <<"ttk.Entry", "TTKEntry", "Entry", <<"Control & Display", "ttk">> >>,
       <<"ttk.Labelframe", "TTKLabelframe", "Labelframe", <<"Containers", "ttk">> >>,
       <<"ttk.Panedwindow", "TTKPanedwindow", "Panedwindow", <<"Containers", "ttk">> >>,
       <<"ttk.Panedwindow.Pane", "TTKPanedwindowPane", "Panedwindow.Pane",
         <<"Pygubu Helpers", "ttk">> >>,
       <<"ttk.Notebook.Tab", "TTKNotebookTab", "Notebook.Tab",
         <<"Pygubu Helpers", "ttk">> >>,
       <<"ttk.Notebook", "TTKNotebook", "Notebook", <<"Containers", "ttk">> >>,
       <<"ttk.Treeview", "TTKTreeviewBO", "Treeview", <<"Control & Display", "ttk">> >>,
       <<"ttk.Treeview.Column", "TTKTreeviewColumnBO", "Treeview.Column",
         <<"Pygubu Helpers", "ttk">> >> >>

RECURSIVE RegisterAll(_, _)
RegisterAll(map, regs) ==
    IF regs = <<>> THEN map
    ELSE RegisterAll(
            register_widget_map(map, Head(regs)[1], Head(regs)[2],
                                Some(Head(regs)[3]), Some(Head(regs)[4])),
            Tail(regs))

StdClassMap == RegisterAll(EmptyDict, StdRegistrations)

----------------------------------------------------------------------------
(* Toolkit values and calls *)

\* a Python object handed to the toolkit: its type, its printed value and
\* (for a tuple) the further elements
Obj(t, v, a) == [t |-> t, v |-> v, a |-> a]
Str(x) == Obj("str", x, <<>>)
Bool(x) == Obj("bool", x, <<>>)

\* one keyword argument
KW(name, value) == [name |-> name, value |-> value]

\* one toolkit call: op on widget with positional and keyword arguments;
\* ok is FALSE when the toolkit raised TclError for it
Call(op, widget, pos, kw, ok) ==
    [op |-> op, widget |-> widget, pos |-> pos, kw |-> kw, ok |-> ok]

\* the widget created by this node's constructor call
NewWidget == "w1"
\* the widget of the child handed to add_child
ChildWidget == "c1"
NoWidget == "None"

\* tk.getboolean(s): the Tcl boolean literals, ValueError/TclError otherwise
getboolean(x) ==
    CASE x \in {"1", "true", "True", "yes", "on"} -> "True"
      [] x \in {"0", "false", "False", "no", "off"} -> "False"
      [] OTHER -> "error"

\* the current value of option name of widget w: the last accepted
\* constructor argument or item assignment, else the toolkit default
RECURSIVE widget_option(_, _, _, _)
widget_option(cs, w, name, default) ==
    IF cs = <<>> THEN default
    ELSE LET c == cs[Len(cs)]
             hit == {i \in DOMAIN c.kw : c.kw[i].name = name}
         IN  IF c.widget = w /\ c.ok /\ c.op \in {"init", "setitem"} /\ hit # {}
             THEN c.kw[CHOOSE i \in hit : TRUE].value.v
             ELSE widget_option(SubSeq(cs, 1, Len(cs) - 1), w, name, default)

\* the content of entry w, as the list of the strings inserted at index 0
\* since the last delete of the whole content; an entry that is not in
\* state normal ignores insert and delete
RECURSIVE entry_content(_, _)
entry_content(cs, w) ==
    IF cs = <<>> THEN <<>>
    ELSE LET c == cs[Len(cs)]
             before == SubSeq(cs, 1, Len(cs) - 1)
             prev == entry_content(before, w)
         IN  IF c.widget = w /\ widget_option(before, w, "state", "normal") = "normal"
             THEN IF c.op = "delete" THEN <<>>
                  ELSE IF c.op = "insert" THEN <<c.pos[2]>> \o prev
                  ELSE prev
             ELSE prev

\* wmeta.properties is an ordered dict: lookups by name
bag_names(props) == {props[i].name : i \in DOMAIN props}
bag_get(props, name) == props[CHOOSE i \in DOMAIN props : props[i].name = name].value

----------------------------------------------------------------------------
(* BuilderObject: builderobject.py lines 172-227, 675-688 *)

\* BuilderObject._process_property_value: the property value as handed to
\* the toolkit, or raised when tk.getboolean refuses the value
_process_property_value(pname, value) ==
    IF pname \in tkvar_properties
    THEN [raised |-> FALSE, val |-> Obj("tkvar", value, <<>>)]
    ELSE IF pname \in tkimage_properties
    THEN [raised |-> FALSE, val |-> Obj("image", value, <<>>)]
    ELSE IF pname = "takefocus"
    THEN IF value # ""
         THEN IF getboolean(value) = "error"
              THEN [raised |-> TRUE, val |-> Str(value)]
              ELSE [raised |-> FALSE, val |-> Bool(getboolean(value))]
         ELSE [raised |-> FALSE, val |-> Str(value)]
    ELSE [raised |-> FALSE, val |-> Str(value)]

\* the running state of an operation: toolkit calls, log records, and
\* whether an exception is propagating
Run(cs, lg) == [calls |-> cs, log |-> lg, raised |-> FALSE]

LogRec(level, pname) == [level |-> level, pname |-> pname]

\* BuilderObject._set_property
BuilderObject_set_property(cls, st, target, pname, value, rejects) ==
    IF pname \notin properties(cls)
    THEN [st EXCEPT !.log = Append(@, LogRec("warning", pname))]
    ELSE LET pv == _process_property_value(pname, value)
         IN  IF pv.raised
             THEN [st EXCEPT !.raised = TRUE]
             ELSE IF pname \in rejects
             THEN [st EXCEPT
                     !.calls = Append(@, Call("setitem", target, <<>>,
                                              <<KW(pname, pv.val)>>, FALSE)),
                     !.log = Append(@, LogRec("error", pname))]
             ELSE [st EXCEPT
                     !.calls = Append(@, Call("setitem", target, <<>>,
                                              <<KW(pname, pv.val)>>, TRUE))]

\* a text assignment that unlocks the widget and leaves it unlocked
EntryBaseBO_set_property_unlocked(cls, st, target, pname, value, rejects) ==
    IF pname = "text"
    THEN LET c1 == Append(st.calls, Call("setitem", target, <<>>,
                                         <<KW("state", Str("normal"))>>, TRUE))
             c2 == Append(c1, Call("delete", target, <<"0", "end">>, <<>>, TRUE))
             c3 == Append(c2, Call("insert", target, <<"0", value>>, <<>>, TRUE))
         IN  [st EXCEPT !.calls = c3]
    ELSE BuilderObject_set_property(cls, st, target, pname, value, rejects)

\* EntryBaseBO._set_property
EntryBaseBO_set_property(cls, st, target, pname, value, rejects) ==
    IF pname = "text"
    THEN LET wstate == widget_option(st.calls, target, "state", "normal")
             c0 == st.calls
             c1 == IF wstate # "normal"
                   THEN Append(c0, Call("setitem", target, <<>>,
                                        <<KW("state", Str("normal"))>>, TRUE))
                   ELSE c0
             c2 == Append(c1, Call("delete", target, <<"0", "end">>, <<>>, TRUE))
             c3 == Append(c2, Call("insert", target, <<"0", value>>, <<>>, TRUE))
             c4 == Append(c3, Call("setitem", target, <<>>,
                                   <<KW("state", Str(wstate))>>, TRUE))
         IN  [st EXCEPT !.calls = c4]
    ELSE BuilderObject_set_property(cls, st, target, pname, value, rejects)

\* self._set_property, resolved through the class's bases
_set_property(cls, st, target, pname, value, rejects) ==
    IF IsEntryBaseBO(cls)
    THEN EntryBaseBO_set_property(cls, st, target, pname, value, rejects)
    ELSE BuilderObject_set_property(cls, st, target, pname, value, rejects)

\* configure that does not leave the read-only properties out
RECURSIVE configure_loop_ro(_, _, _, _, _, _)
configure_loop_ro(cls, props, i, st, target, rejects) ==
    IF i > Len(props) \/ st.raised THEN st
    ELSE LET pname == props[i].name
             value == props[i].value
             st2 == IF pname \notin SeqToSet(command_properties(cls))
                    THEN _set_property(cls, st, target, pname, value, rejects)
                    ELSE st
         IN  configure_loop_ro(cls, props, i + 1, st2, target, rejects)

\* BuilderObject.configure: the loop over wmeta.properties from item i on
RECURSIVE configure_loop(_, _, _, _, _, _)
configure_loop(cls, props, i, st, target, rejects) ==
    IF i > Len(props) \/ st.raised THEN st
    ELSE LET pname == props[i].name
             value == props[i].value
             st2 == IF /\ pname \notin SeqToSet(ro_properties(cls))
                       /\ pname \notin SeqToSet(command_properties(cls))
                    THEN _set_property(cls, st, target, pname, value, rejects)
                    ELSE st
         IN  configure_loop(cls, props, i + 1, st2, target, rejects)

\* configure(): pass for the helpers, the base loop otherwise
configure(cls, props, st, target, rejects) ==
    IF IsHelper(cls) \/ IsTreeviewColumn(cls) THEN st
    ELSE configure_loop(cls, props, 1, st, target, rejects)

\* BuilderObject._get_init_args: the read-only properties of the bag, in
\* ro_properties order
RECURSIVE _get_init_args(_, _, _)
_get_init_args(cls, props, i) ==
    IF i > Len(ro_properties(cls)) THEN [raised |-> FALSE, args |-> <<>>]
    ELSE LET rop == ro_properties(cls)[i]
             rest == _get_init_args(cls, props, i + 1)
         IN  IF rop \in bag_names(props)
             THEN LET pv == _process_property_value(rop, bag_get(props, rop))
                  IN  IF pv.raised \/ rest.raised
                      THEN [raised |-> TRUE, args |-> <<>>]
                      ELSE [raised |-> FALSE,
                            args |-> <<KW(rop, pv.val)>> \o rest.args]
             ELSE rest

\* parent.get_child_master()
get_child_master(p) == p.widget

\* the constructor call class_(master, **args): TclError when the toolkit
\* rejects one of the arguments
construct(cls, master, args, rejects) ==
    Call("init", NewWidget, <<class_(cls), master>>, args,
         \A i \in DOMAIN args : args[i].name \notin rejects)

\* realize that builds the widget under the default root instead of the
\* parent's child master
realize_no_master(cls, props, p, rejects) ==
    IF IsHelper(cls)
    THEN [calls |-> <<>>, widget |-> get_child_master(p), raised |-> FALSE]
    ELSE LET ia == _get_init_args(cls, props, 1)
             c == construct(cls, NoWidget, ia.args, rejects)
         IN  IF ia.raised \/ ~c.ok
             THEN [calls |-> <<c>>, widget |-> NoWidget, raised |-> TRUE]
             ELSE [calls |-> <<c>>, widget |-> NewWidget, raised |-> FALSE]

\* realize that passes the read-only properties of the bag and no default
realize_no_default(cls, props, p, rejects) ==
    IF IsHelper(cls) \/ IsTreeviewColumn(cls)
    THEN [calls |-> <<>>, widget |-> get_child_master(p), raised |-> FALSE]
    ELSE LET ia == _get_init_args(cls, props, 1)
             c == construct(cls, get_child_master(p), ia.args, rejects)
         IN  IF ia.raised
             THEN [calls |-> <<>>, widget |-> NoWidget, raised |-> TRUE]
             ELSE IF ~c.ok
             THEN [calls |-> <<c>>, widget |-> NoWidget, raised |-> TRUE]
             ELSE [calls |-> <<c>>, widget |-> NewWidget, raised |-> FALSE]

\* realize(parent): the constructor call made (if any), the widget stored
\* and whether it raised
realize(cls, props, p, rejects) ==
    IF IsHelper(cls) \/ IsTreeviewColumn(cls)
    THEN [calls |-> <<>>, widget |-> get_child_master(p), raised |-> FALSE]
    ELSE LET ia == _get_init_args(cls, props, 1)
             args == IF IsPanedWindowBO(cls)
                        /\ "orient" \notin {ia.args[i].name : i \in DOMAIN ia.args}
                     THEN ia.args \o <<KW("orient", Str("vertical"))>>
                     ELSE ia.args
             c == construct(cls, get_child_master(p), args, rejects)
         IN  IF ia.raised
             THEN [calls |-> <<>>, widget |-> NoWidget, raised |-> TRUE]
             ELSE IF ~c.ok
             THEN [calls |-> <<c>>, widget |-> NoWidget, raised |-> TRUE]
             ELSE [calls |-> <<c>>, widget |-> NewWidget, raised |-> FALSE]

\* an add_child of the helpers that adds the child without the node's
\* properties
add_child_bare(cls, props, widget, child, rejects) ==
    IF IsHelper(cls)
    THEN [calls |-> <<Call("add", widget, <<child>>, <<>>, TRUE)>>, raised |-> FALSE]
    ELSE [calls |-> <<>>, raised |-> FALSE]

\* add_child(bobject): pass in the base class; the helpers add the child's
\* widget to the borrowed widget with the node's whole property bag
add_child(cls, props, widget, child, rejects) ==
    IF IsHelper(cls)
    THEN LET kw == [i \in DOMAIN props |-> KW(props[i].name, Str(props[i].value))]
             c == Call("add", widget, <<child>>, kw,
                       \A i \in DOMAIN props : props[i].name \notin rejects)
         IN  [calls |-> <<c>>, raised |-> ~c.ok]
    ELSE [calls |-> <<>>, raised |-> FALSE]

----------------------------------------------------------------------------
(* Bounds of the build inputs *)

\* the longest property bag
MaxProps == 2
\* the most configure calls made on one builder object
MaxConfigure == 2

\* a command property's value: the JSON text the ui file holds
CmdOnA == "{\"value\": \"on_a\", \"cbtype\": \"simple\"}"

\* the property names a bag may hold ("bogus" is declared by no variant)
BagNames ==
    {"class_", "text", "takefocus", "state", "orient", "weight", "command", "bogus"}

\* the values a bag may hold for a name
BagValues(name) ==
    CASE name = "class_" -> {"My.TFrame"}
      [] name = "text" -> {"hello"}
      [] name = "takefocus" -> {"", "true", "maybe"}
      [] name = "state" -> {"disabled", "normal"}
      [] name = "orient" -> {"horizontal"}
      [] name = "weight" -> {"1"}
      [] name = "command" -> {CmdOnA}
      [] OTHER -> {"x"}

BagItems == UNION {{KW(n, v) : v \in BagValues(n)} : n \in BagNames}

\* the ordered dicts over items of at most n entries, names distinct
Bags(items, n) ==
    {b \in UNION {[1..k -> items] : k \in 0..n} :
        \A i, j \in DOMAIN b : i # j => b[i].name # b[j].name}

\* the classes of the node built alone
NodeClassNames ==
    {"ttk.Frame", "ttk.Button", "ttk.Entry", "ttk.Labelframe", "ttk.Panedwindow",
     "ttk.Panedwindow.Pane", "ttk.Notebook.Tab"}

\* the widgets a parent may offer as child master
ParentWidgets == {"m1", "m2"}

----------------------------------------------------------------------------
(* The build of one node *)

NoResult == [op |-> "none", raised |-> FALSE, ret |-> NoneArg]
Result(op, raised, ret) == [op |-> op, raised |-> raised, ret |-> ret]

NoOps ==
    [configure |-> 0, add_child |-> 0, layout |-> 0, connect_commands |-> 0,
     register_property |-> 0, connect_bindings |-> 0]

\* no code_* method has been called
NoCode ==
    [_code_identifier |-> NoneArg, code_realize |-> NoneArg, code_configure |-> NoneArg,
     code_layout |-> NoneArg]

\* no tree is being built
NoTree == [nodes |-> <<>>, pc |-> 1]

\* WidgetMeta of the node
WidgetMeta(classname, props, manager, lprops, cmanager, cprops, gridrc) ==
    [identifier |-> "node1", classname |-> classname, properties |-> props,
     manager |-> manager, layout_properties |-> lprops,
     container_manager |-> cmanager, container_properties |-> cprops,
     gridrc_properties |-> gridrc, bindings |-> <<>>]

\* the state after cls.factory(builder, wdata): BuilderObject.__init__
NodeInitMeta(wm, master, rejects, bag) ==
    /\ CLASS_MAP = StdClassMap
    /\ CUSTOM_PROPERTIES = EmptyDict
    /\ wcalls = EmptyDict
    /\ lastReg = NoReg
    /\ wmeta = wm
    /\ bo = [cls |-> StdClassMap[wm.classname].builder, widget |-> NoWidget]
    /\ parent = [widget |-> master]
    /\ tk_rejects = rejects
    /\ cmd_bag = bag
    /\ phase = "new"
    /\ calls = <<>>
    /\ log = <<>>
    /\ result = NoResult
    /\ nops = NoOps
    /\ code = NoCode
    /\ tree = NoTree

NodeInit(classname, props, manager, lprops, cmanager, cprops, gridrc, master, rejects, bag) ==
    NodeInitMeta(WidgetMeta(classname, props, manager, lprops, cmanager, cprops, gridrc),
                 master, rejects, bag)

NoBag == [kind |-> "dict", names |-> EmptyDict]

Init ==
    \E classname \in NodeClassNames, props \in Bags(BagItems, MaxProps),
       master \in ParentWidgets :
        \E rejects \in SUBSET bag_names(props) :
            NodeInit(classname, props, "grid", <<>>, Some("grid"), <<>>, <<>>,
                     master, rejects, NoBag)

Realize ==
    /\ phase = "new"
    /\ LET r == realize(bo.cls, wmeta.properties, parent, tk_rejects)
       IN  /\ calls' = calls \o r.calls
           /\ bo' = [bo EXCEPT !.widget = r.widget]
           /\ phase' = IF r.raised THEN "aborted" ELSE "realized"
           /\ result' = Result("realize", r.raised,
                               IF r.raised THEN NoneArg ELSE Some(r.widget))
    /\ UNCHANGED <<regVars, genVars, wmeta, parent, cmd_bag, tk_rejects, log, nops>>

Configure ==
    /\ phase = "realized"
    /\ nops.configure < MaxConfigure
    /\ LET st == configure(bo.cls, wmeta.properties, Run(calls, log), bo.widget,
                           tk_rejects)
       IN  /\ calls' = st.calls
           /\ log' = st.log
           /\ phase' = IF st.raised THEN "aborted" ELSE phase
           /\ result' = Result("configure", st.raised, NoneArg)
    /\ nops' = [nops EXCEPT !.configure = @ + 1]
    /\ UNCHANGED <<regVars, genVars, bo, wmeta, parent, cmd_bag, tk_rejects>>

AddChild ==
    /\ phase = "realized"
    /\ nops.add_child < 1
    /\ LET r == add_child(bo.cls, wmeta.properties, bo.widget, ChildWidget, tk_rejects)
       IN  /\ calls' = calls \o r.calls
           /\ phase' = IF r.raised THEN "aborted" ELSE phase
           /\ result' = Result("add_child", r.raised, NoneArg)
    /\ nops' = [nops EXCEPT !.add_child = @ + 1]
    /\ UNCHANGED <<regVars, genVars, bo, wmeta, parent, cmd_bag, tk_rejects, log>>

Next == Realize \/ Configure \/ AddChild

Spec == Init /\ [][Next]_vars

\* the build of an entry node
EntryItems ==
    {KW("state", v) : v \in {"disabled", "readonly", "normal"}}
    \cup {KW("text", "hello"), KW("show", "*")}

InitEntry ==
    \E props \in Bags(EntryItems, MaxProps), master \in ParentWidgets :
        \E rejects \in SUBSET (bag_names(props) \ {"text"}) :
            NodeInit("ttk.Entry", props, "grid", <<>>, Some("grid"), <<>>, <<>>,
                     master, rejects, NoBag)

NextEntry == Realize \/ Configure

SpecEntry == InitEntry /\ [][NextEntry]_vars

----------------------------------------------------------------------------
(* BuilderObject.layout: builderobject.py lines 229-275 *)

\* dict.get(name, default) on an ordered dict
bag_get_default(props, name, default) ==
    IF name \in bag_names(props) THEN bag_get(props, name) ELSE default

StrArgs(props) == [i \in DOMAIN props |-> KW(props[i].name, Str(props[i].value))]

\* BuilderObject._gridrc_config: one rowconfigure/columnconfigure call per
\* entry of wmeta.gridrc_properties, in order
_gridrc_config(gridrc, target) ==
    [i \in DOMAIN gridrc |->
        Call(IF gridrc[i].type = "row" THEN "rowconfigure" ELSE "columnconfigure",
             target, <<gridrc[i].num>>,
             <<KW(gridrc[i].pname, Str(gridrc[i].value))>>, TRUE)]

\* a geometry-manager stage that falls back to grid for an unknown manager
layout_manager_fallback(cls, wm, st, target) ==
    IF layout_required(cls)
    THEN [st EXCEPT !.calls =
            Append(@, Call(IF wm.manager \in {"pack", "place"} THEN wm.manager ELSE "grid",
                           target, <<>>, StrArgs(wm.layout_properties), TRUE))]
    ELSE st

\* the geometry-manager stage of layout
layout_manager(cls, wm, st, target) ==
    IF layout_required(cls)
    THEN IF wm.manager \in {"grid", "pack", "place"}
         THEN [st EXCEPT !.calls = Append(@, Call(wm.manager, target, <<>>,
                                                  StrArgs(wm.layout_properties), TRUE))]
         ELSE [st EXCEPT !.raised = TRUE]
    ELSE st

\* a container stage that configures the rows only and lets a missing
\* container manager pass
layout_container_rows(cls, wm, st, target) ==
    IF container_layout(cls) /\ ~wm.container_manager.isNone
       /\ wm.container_manager.val = "grid"
    THEN [st EXCEPT !.calls = @ \o
            SelectSeq(_gridrc_config(wm.gridrc_properties, target),
                      LAMBDA c : c.op = "rowconfigure")]
    ELSE st

\* the container stage of layout
layout_container(cls, wm, st, target) ==
    IF container_layout(cls)
    THEN LET cprops == wm.container_properties
             propagate == getboolean(bag_get_default(cprops, "propagate", "true"))
             hasanchor == "anchor" \in bag_names(cprops)
             anchor == bag_get_default(cprops, "anchor", "")
             cm == wm.container_manager
         IN  IF propagate = "error"
             THEN [st EXCEPT !.raised = TRUE]
             ELSE IF ~cm.isNone /\ cm.val = "grid"
             THEN LET c1 == IF hasanchor /\ anchor # ""
                            THEN <<Call("grid_anchor", target, <<anchor>>, <<>>, TRUE)>>
                            ELSE <<>>
                      c2 == IF propagate = "False"
                            THEN <<Call("grid_propagate", target, <<"0">>, <<>>, TRUE)>>
                            ELSE <<>>
                  IN  [st EXCEPT !.calls = @ \o c1 \o c2
                                             \o _gridrc_config(wm.gridrc_properties, target)]
             ELSE IF ~cm.isNone /\ cm.val = "pack"
             THEN IF propagate = "False"
                  THEN [st EXCEPT !.calls =
                          Append(@, Call("pack_propagate", target, <<"0">>, <<>>, TRUE))]
                  ELSE st
             ELSE IF cm.isNone
             THEN [st EXCEPT !.raised = TRUE]
             ELSE st
    ELSE st

\* layout(): pass for the helpers; otherwise the geometry-manager stage and,
\* unless it raised, the container stage
layout(cls, wm, st, target) ==
    IF IsHelper(cls) \/ IsTreeviewColumn(cls) THEN st
    ELSE LET s1 == layout_manager(cls, wm, st, target)
         IN  IF s1.raised THEN s1 ELSE layout_container(cls, wm, s1, target)

----------------------------------------------------------------------------
(* Bounds of the layout inputs *)

\* the longest list of grid row/column settings
MaxGridRC == 2

\* the most container properties of one node
MaxContainerProps == 2

LayoutClassNames == {"ttk.Frame", "ttk.Button", "ttk.Panedwindow.Pane"}
Managers == {"grid", "pack", "place", "bogus"}
LayoutBags == {<<>>, <<KW("padx", "4"), KW("side", "top")>>}
ContainerManagers == {NoneArg, Some("grid"), Some("pack"), Some("place")}
ContainerItems ==
    {KW("propagate", "True"), KW("propagate", "False"), KW("propagate", "0"),
     KW("anchor", "center"), KW("anchor", "")}
GridRC(type, num, pname, value) ==
    [type |-> type, num |-> num, pname |-> pname, value |-> value]
GridRCItems ==
    {GridRC("row", "0", "weight", "1"), GridRC("row", "all", "minsize", "10"),
     GridRC("col", "0", "weight", "1"), GridRC("col", "1", "pad", "2")}
GridRCLists == UNION {[1..k -> GridRCItems] : k \in 0..MaxGridRC}

InitLayout ==
    \E classname \in LayoutClassNames, manager \in Managers, lprops \in LayoutBags,
       cm \in ContainerManagers, cprops \in Bags(ContainerItems, MaxContainerProps),
       gridrc \in GridRCLists :
        NodeInit(classname, <<>>, manager, lprops, cm, cprops, gridrc,
                 "m1", {}, NoBag)

Layout ==
    /\ phase = "realized"
    /\ nops.layout < 1
    /\ LET st == layout(bo.cls, wmeta, Run(calls, log), bo.widget)
       IN  /\ calls' = st.calls
           /\ phase' = IF st.raised THEN "aborted" ELSE phase
           /\ result' = Result("layout", st.raised, NoneArg)
    /\ nops' = [nops EXCEPT !.layout = @ + 1]
    /\ UNCHANGED <<regVars, genVars, bo, wmeta, parent, cmd_bag, tk_rejects, log>>

NextLayout == Realize \/ Layout

SpecLayout == InitLayout /\ [][NextLayout]_vars

----------------------------------------------------------------------------
(* BuilderObject.connect_commands: builderobject.py lines 283-340 *)

\* the JSON texts of command properties
CmdOnBWid == "{\"value\": \"on_b\", \"cbtype\": \"with_wid\"}"
CmdPadded == "{\"value\": \" on_a \", \"cbtype\": \"simple\"}"
CmdBlank == "{\"value\": \"  \", \"cbtype\": \"simple\"}"
CmdValidate == "{\"value\": \"on_a\", \"cbtype\": \"entry_validate\", \"args\": \"%P\"}"
CmdValidateB == "{\"value\": \"on_b\", \"cbtype\": \"entry_validate\", \"args\": \"\"}"

CmdJsons == {CmdOnA, CmdOnBWid, CmdPadded, CmdBlank, CmdValidate, CmdValidateB}

Cmd(value, cbtype, args) == [value |-> value, cbtype |-> cbtype, args |-> args]

\* json.loads on the command texts
json_loads(x) ==
    CASE x = CmdOnA -> Cmd("on_a", "simple", "")
      [] x = CmdOnBWid -> Cmd("on_b", "with_wid", "")
      [] x = CmdPadded -> Cmd(" on_a ", "simple", "")
      [] x = CmdBlank -> Cmd("  ", "simple", "")
      [] x = CmdValidate -> Cmd("on_a", "entry_validate", "%P")
      [] x = CmdValidateB -> Cmd("on_b", "entry_validate", "")

\* str.strip on the callback names
strip(x) ==
    CASE x = " on_a " -> "on_a"
      [] x = "  " -> ""
      [] OTHER -> x

\* the caller's bag: a dict (kind "dict", names = its items) or another
\* object (kind "object", names = its attributes)
\* cmd_name in cmd_bag
bag_has(bag, name) == name \in DOMAIN bag.names
\* cmd_bag[cmd_name]
bag_lookup(bag, name) == bag.names[name]
\* hasattr(cmd_bag, cmd_name)
hasattr(bag, name) == \E a \in DOMAIN bag.names : a = name
\* getattr(cmd_bag, cmd_name)
getattr(bag, name) == bag.names[CHOOSE a \in DOMAIN bag.names : a = name]
\* isinstance(cmd_bag, dict)
isinstance_dict(bag) == bag.kind = "dict"

\* BuilderObject._create_callback: the callback object and the toolkit
\* calls made to build it
_create_callback(cmd, command, widget) ==
    IF cmd.cbtype = "with_wid"
    THEN [cb |-> Obj("widget_callback", command, <<>>), calls |-> <<>>]
    ELSE IF cmd.cbtype = "entry_validate"
    THEN [cb |-> IF cmd.args # ""
                 THEN Obj("tuple", command, <<cmd.args>>)
                 ELSE Obj("registered", command, <<>>),
          calls |-> <<Call("register", widget, <<command>>, <<>>, TRUE)>>]
    ELSE [cb |-> Obj("callable", command, <<>>), calls |-> <<>>]

\* BuilderObject._connect_command
_connect_command(widget, cmd_pname, callback) ==
    Call("configure", widget, <<>>, <<KW(cmd_pname, callback)>>, TRUE)

\* a first loop that keeps the commands whose callback name is blank
RECURSIVE collect_commands_keep_blank(_, _, _, _)
collect_commands_keep_blank(cls, props, i, st) ==
    IF i > Len(command_properties(cls)) THEN st
    ELSE LET cmd_pname == command_properties(cls)[i]
             st2 ==
                IF cmd_pname \in bag_names(props)
                THEN [st EXCEPT !.commands =
                        Append(@, [pname |-> cmd_pname,
                                   cmd |-> json_loads(bag_get(props, cmd_pname))])]
                ELSE st
         IN  collect_commands_keep_blank(cls, props, i + 1, st2)

\* the first loop of connect_commands: the declared command properties of
\* the bag whose callback name is not blank, in command_properties order
RECURSIVE collect_commands(_, _, _, _)
collect_commands(cls, props, i, st) ==
    IF i > Len(command_properties(cls)) THEN st
    ELSE LET cmd_pname == command_properties(cls)[i]
             st2 ==
                IF cmd_pname \in bag_names(props)
                THEN LET cmd == json_loads(bag_get(props, cmd_pname))
                     IN  IF strip(cmd.value) # ""
                         THEN [st EXCEPT !.commands =
                                 Append(@, [pname |-> cmd_pname, cmd |-> cmd])]
                         ELSE [st EXCEPT !.log =
                                 Append(@, LogRec("warning", cmd_pname))]
                ELSE st
         IN  collect_commands(cls, props, i + 1, st2)

\* a connect loop that gives up at the first unresolved name
RECURSIVE connect_loop_stop(_, _, _, _, _)
connect_loop_stop(commands, i, bag, widget, st) ==
    IF i > Len(commands) THEN st
    ELSE LET cmd == commands[i].cmd
             cmd_name == cmd.value
         IN  IF bag_has(bag, cmd_name)
             THEN LET cb == _create_callback(cmd, bag_lookup(bag, cmd_name), widget)
                  IN  connect_loop_stop(commands, i + 1, bag, widget,
                        [st EXCEPT !.calls = @ \o cb.calls \o
                            <<_connect_command(widget, commands[i].pname, cb.cb)>>])
             ELSE [st EXCEPT !.notconnected = Append(@, cmd_name)]

\* the second loop of connect_commands when the bag is a dict
RECURSIVE connect_loop(_, _, _, _, _)
connect_loop(commands, i, bag, widget, st) ==
    IF i > Len(commands) THEN st
    ELSE LET cmd == commands[i].cmd
             cmd_name == cmd.value
             st2 ==
                IF bag_has(bag, cmd_name)
                THEN LET cb == _create_callback(cmd, bag_lookup(bag, cmd_name), widget)
                     IN  [st EXCEPT !.calls = @ \o cb.calls \o
                            <<_connect_command(widget, commands[i].pname, cb.cb)>>]
                ELSE [st EXCEPT !.notconnected = Append(@, cmd_name)]
         IN  connect_loop(commands, i + 1, bag, widget, st2)

\* an attribute loop that reports the unresolved names without connecting
\* the resolved ones
RECURSIVE connect_loop_attr_report(_, _, _, _, _)
connect_loop_attr_report(commands, i, bag, widget, st) ==
    IF i > Len(commands) THEN st
    ELSE LET cmd_name == commands[i].cmd.value
             st2 == IF hasattr(bag, cmd_name) THEN st
                    ELSE [st EXCEPT !.notconnected = Append(@, cmd_name)]
         IN  connect_loop_attr_report(commands, i + 1, bag, widget, st2)

\* the second loop of connect_commands when the bag is not a dict
RECURSIVE connect_loop_attr(_, _, _, _, _)
connect_loop_attr(commands, i, bag, widget, st) ==
    IF i > Len(commands) THEN st
    ELSE LET cmd == commands[i].cmd
             cmd_name == cmd.value
             st2 ==
                IF hasattr(bag, cmd_name)
                THEN LET cb == _create_callback(cmd, getattr(bag, cmd_name), widget)
                     IN  [st EXCEPT !.calls = @ \o cb.calls \o
                            <<_connect_command(widget, commands[i].pname, cb.cb)>>]
                ELSE [st EXCEPT !.notconnected = Append(@, cmd_name)]
         IN  connect_loop_attr(commands, i + 1, bag, widget, st2)

\* connect_commands(cmd_bag): the calls made, the records logged and the
\* value returned
connect_commands(cls, props, bag, widget, cs, lg) ==
    LET col == collect_commands(cls, props, 1, [commands |-> <<>>, log |-> lg])
        st0 == [calls |-> cs, notconnected |-> <<>>]
        st == IF isinstance_dict(bag)
              THEN connect_loop(col.commands, 1, bag, widget, st0)
              ELSE connect_loop_attr(col.commands, 1, bag, widget, st0)
    IN  [calls |-> st.calls, log |-> col.log,
         ret |-> IF st.notconnected # <<>> THEN Some(st.notconnected) ELSE NoneArg]

----------------------------------------------------------------------------
(* Bounds of the connect inputs *)

ConnectClassNames == {"ttk.Frame", "ttk.Button", "ttk.Entry"}
ConnectItems ==
    {KW(n, v) : n \in {"command", "validatecommand", "invalidcommand"}, v \in CmdJsons}
    \cup {KW("text", "hello")}

\* the callables the caller's bag may hold, by name
Callables == [on_a |-> "f_a", on_b |-> "f_b"]
CmdBags ==
    {[kind |-> k, names |-> [n \in ns |-> Callables[n]]] :
        k \in {"dict", "object"}, ns \in SUBSET (DOMAIN Callables)}

InitConnect ==
    \E classname \in ConnectClassNames, props \in Bags(ConnectItems, MaxProps),
       bag \in CmdBags :
        NodeInit(classname, props, "grid", <<>>, Some("grid"), <<>>, <<>>,
                 "m1", {}, bag)

ConnectCommands ==
    /\ phase = "realized"
    /\ nops.connect_commands < 1
    /\ LET r == connect_commands(bo.cls, wmeta.properties, cmd_bag, bo.widget, calls, log)
       IN  /\ calls' = r.calls
           /\ log' = r.log
           /\ result' = Result("connect_commands", FALSE, r.ret)
    /\ nops' = [nops EXCEPT !.connect_commands = @ + 1]
    /\ UNCHANGED <<regVars, genVars, bo, wmeta, parent, cmd_bag, tk_rejects, phase>>

NextConnect == Realize \/ ConnectCommands

SpecConnect == InitConnect /\ [][NextConnect]_vars

----------------------------------------------------------------------------
(* BuilderObject.connect_bindings: builderobject.py lines 342-364 *)

\* one entry of wmeta.bindings
BindingMeta(sequence, handler, add) ==
    [sequence |-> sequence, handler |-> handler, add |-> add]

\* self.widget.bind(bind.sequence, callback, add=bind.add)
widget_bind(widget, bind, callback) ==
    Call("bind", widget, <<bind.sequence, callback>>, <<KW("add", Str(bind.add))>>, TRUE)

\* a dict loop that stops at the first handler the bag does not hold
RECURSIVE bind_loop_stop(_, _, _, _, _)
bind_loop_stop(bindings, i, bag, widget, st) ==
    IF i > Len(bindings) THEN st
    ELSE LET bind == bindings[i]
             cb_name == bind.handler
         IN  IF bag_has(bag, cb_name)
             THEN bind_loop_stop(bindings, i + 1, bag, widget,
                    [st EXCEPT !.calls =
                        Append(@, widget_bind(widget, bind, bag_lookup(bag, cb_name)))])
             ELSE [st EXCEPT !.notconnected = Append(@, cb_name)]

\* the loop of connect_bindings when the bag is a dict
RECURSIVE bind_loop(_, _, _, _, _)
bind_loop(bindings, i, bag, widget, st) ==
    IF i > Len(bindings) THEN st
    ELSE LET bind == bindings[i]
             cb_name == bind.handler
             st2 ==
                IF bag_has(bag, cb_name)
                THEN [st EXCEPT !.calls =
                        Append(@, widget_bind(widget, bind, bag_lookup(bag, cb_name)))]
                ELSE [st EXCEPT !.notconnected = Append(@, cb_name)]
         IN  bind_loop(bindings, i + 1, bag, widget, st2)

\* the loop of connect_bindings when the bag is not a dict
RECURSIVE bind_loop_attr(_, _, _, _, _)
bind_loop_attr(bindings, i, bag, widget, st) ==
    IF i > Len(bindings) THEN st
    ELSE LET bind == bindings[i]
             cb_name == bind.handler
             st2 ==
                IF hasattr(bag, cb_name)
                THEN [st EXCEPT !.calls =
                        Append(@, widget_bind(widget, bind, getattr(bag, cb_name)))]
                ELSE [st EXCEPT !.notconnected = Append(@, cb_name)]
         IN  bind_loop_attr(bindings, i + 1, bag, widget, st2)

\* connect_bindings(cb_bag): the calls made and the value returned
connect_bindings(bindings, bag, widget, cs) ==
    LET st0 == [calls |-> cs, notconnected |-> <<>>]
        st == IF isinstance_dict(bag)
              THEN bind_loop(bindings, 1, bag, widget, st0)
              ELSE bind_loop_attr(bindings, 1, bag, widget, st0)
    IN  [calls |-> st.calls,
         ret |-> IF st.notconnected # <<>> THEN Some(st.notconnected) ELSE NoneArg]

\* the longest list of bindings of one node
MaxBindings == 2

BindingClassNames == {"ttk.Frame", "ttk.Button"}
BindingItems ==
    {BindingMeta(s, h, a) :
        s \in {"<Button-1>", "<Key>"}, h \in {"on_a", "on_b", "on_c"}, a \in {"", "+"}}
BindingLists == UNION {[1..k -> BindingItems] : k \in 0..MaxBindings}

InitBindings ==
    \E classname \in BindingClassNames, bindings \in BindingLists, bag \in CmdBags :
        NodeInitMeta(
            [WidgetMeta(classname, <<>>, "grid", <<>>, Some("grid"), <<>>, <<>>)
                EXCEPT !.bindings = bindings],
            "m1", {}, bag)

ConnectBindings ==
    /\ phase = "realized"
    /\ nops.connect_bindings < 1
    /\ LET r == connect_bindings(wmeta.bindings, cmd_bag, bo.widget, calls)
       IN  /\ calls' = r.calls
           /\ result' = Result("connect_bindings", FALSE, r.ret)
    /\ nops' = [nops EXCEPT !.connect_bindings = @ + 1]
    /\ UNCHANGED <<regVars, genVars, bo, wmeta, parent, cmd_bag, tk_rejects, phase, log>>

NextBindings == Realize \/ ConnectBindings

SpecBindings == InitBindings /\ [][NextBindings]_vars

\* a node with command properties and bindings, connected to either shape
\* of bag
BagShapeItems ==
    {KW("command", CmdOnA), KW("command", CmdOnBWid), KW("validatecommand", CmdValidate),
     KW("invalidcommand", CmdValidateB), KW("text", "hello")}
BagShapeBindings ==
    UNION {[1..k -> {BindingMeta("<Key>", h, "") : h \in {"on_a", "on_b", "on_c"}}] :
              k \in 0..MaxBindings}

InitBagShapes ==
    \E classname \in ConnectClassNames, props \in Bags(BagShapeItems, MaxProps),
       bindings \in BagShapeBindings, bag \in CmdBags :
        NodeInitMeta(
            [WidgetMeta(classname, props, "grid", <<>>, Some("grid"), <<>>, <<>>)
                EXCEPT !.bindings = bindings],
            "m1", {}, bag)

NextBagShapes == Realize \/ ConnectCommands \/ ConnectBindings

SpecBagShapes == InitBagShapes /\ [][NextBagShapes]_vars

----------------------------------------------------------------------------
(* TTKTreeviewBO and TTKTreeviewColumnBO: ttkstdwidgets.py lines 352-404, *)
(* 551-623                                                                 *)

\* an OrderedDict: a sequence of [key, val] entries with distinct keys
od_entry(k, v) == [key |-> k, val |-> v]
od_keys(d) == [i \in DOMAIN d |-> d[i].key]
od_has(d, k) == \E i \in DOMAIN d : d[i].key = k

\* an assignment that always appends, whether the key is there or not
od_set_append(d, k, v) == Append(d, od_entry(k, v))

\* d[k] = v: a key already there keeps its place and takes the new value
od_set(d, k, v) ==
    IF od_has(d, k)
    THEN [i \in DOMAIN d |-> IF d[i].key = k THEN od_entry(k, v) ELSE d[i]]
    ELSE Append(d, od_entry(k, v))

\* str.lower on the flag texts
lower(x) ==
    CASE x \in {"true", "True", "TRUE"} -> "true"
      [] x \in {"false", "False", "FALSE"} -> "false"
      [] OTHER -> x

\* a set_column that displays every column, the tree column and the hidden
\* ones included
set_column_display_all(t, col_id, attrs, visible) ==
    LET cols == IF t._columns.isNone THEN <<>> ELSE t._columns.val
        dcols == IF t._columns.isNone THEN <<>> ELSE t._dcolumns.val
    IN  [t EXCEPT !._columns = Some(od_set(cols, col_id, attrs)),
                  !._dcolumns = Some(Append(dcols, col_id))]

\* TTKTreeviewBO.set_column on the tree builder object t
set_column(t, col_id, attrs, visible) ==
    LET cols == IF t._columns.isNone THEN <<>> ELSE t._columns.val
        dcols == IF t._columns.isNone THEN <<>> ELSE t._dcolumns.val
    IN  [t EXCEPT !._columns = Some(od_set(cols, col_id, attrs)),
                  !._dcolumns = Some(IF visible /\ col_id # "#0"
                                     THEN Append(dcols, col_id) ELSE dcols)]

\* TTKTreeviewBO.set_heading on the tree builder object t
set_heading(t, col_id, attrs) ==
    LET heads == IF t._headings.isNone THEN <<>> ELSE t._headings.val
    IN  [t EXCEPT !._headings = Some(od_set(heads, col_id, attrs))]

\* TTKTreeviewColumnBO._get_heading_properties
_get_heading_properties(wm) ==
    LET props == wm.properties
        text == bag_get_default(props, "text", wm.identifier)
        imgvalue == bag_get_default(props, "image", "")
    IN  <<KW("anchor", Str(bag_get_default(props, "heading_anchor", "w"))),
          KW("text", Str(text))>>
        \o (IF imgvalue # ""
            THEN <<KW("image", _process_property_value("image", imgvalue).val)>>
            ELSE <<>>)

\* TTKTreeviewColumnBO._get_column_properties
_get_column_properties(wm) ==
    LET props == wm.properties
    IN  <<KW("anchor", Str(bag_get_default(props, "column_anchor", ""))),
          KW("stretch", Str(bag_get_default(props, "stretch", "1"))),
          KW("width", Str(bag_get_default(props, "width", "200"))),
          KW("minwidth", Str(bag_get_default(props, "minwidth", "20")))>>

\* the column id of the child: "#0" for the tree column
column_id(wm) ==
    IF lower(bag_get_default(wm.properties, "tree_column", "false")) = "true"
    THEN "#0" ELSE wm.identifier

\* TTKTreeviewColumnBO._setup_column: the tree builder object t after the
\* child wm handed it its heading and its column
_setup_column(t, wm) ==
    LET is_visible == lower(bag_get_default(wm.properties, "visible", "true")) = "true"
        t1 == set_heading(t, column_id(wm), _get_heading_properties(wm))
    IN  set_column(t1, column_id(wm), _get_column_properties(wm), is_visible)

\* a list handed to the toolkit
List(s) == Obj("list", "", s)

\* TTKTreeviewBO.__configure_columns: the calls made on the tree widget
configure_columns(t) ==
    LET cols == IF t._columns.isNone THEN <<>> ELSE t._columns.val
        heads == IF t._headings.isNone THEN <<>> ELSE t._headings.val
        columns == SelectSeq(od_keys(cols), LAMBDA k : k # "#0")
        c1 == IF cols # <<>>
              THEN <<Call("configure", t.widget, <<>>,
                          <<KW("columns", List(columns)),
                            KW("displaycolumns", List(t._dcolumns.val))>>, TRUE)>>
                   \o [i \in DOMAIN cols |->
                          Call("column", t.widget, <<cols[i].key>>, cols[i].val, TRUE)]
              ELSE <<>>
        c2 == [i \in DOMAIN heads |->
                  Call("heading", t.widget, <<heads[i].key>>, heads[i].val, TRUE)]
    IN  c1 \o c2

----------------------------------------------------------------------------
(* The build of a widget tree: every node of the description gets its     *)
(* builder object, which is realized under its parent's builder object,   *)
(* gets its children, and is configured and laid out                      *)

\* the most nodes of a tree
MaxNodes == 3

\* the identifier of the i-th node of the description, and the widget its
\* constructor returns
TreeIds == <<"n1", "n2", "n3", "n4", "n5">>
TreeWidgets == <<"w1", "w2", "w3", "w4", "w5">>

\* the builder object of a node: BuilderObject.__init__ (and
\* TTKTreeviewBO.__init__ for the column stores); parent is the index of
\* the parent node, 0 for the root
TreeNode(wm, parentIdx) ==
    [wmeta |-> wm, cls |-> StdClassMap[wm.classname].builder, parent |-> parentIdx,
     widget |-> NoWidget, realized |-> FALSE, master |-> NoWidget,
     _columns |-> NoneArg, _headings |-> NoneArg, _dcolumns |-> NoneArg]

\* the children of node i, in declared order
Children(nodes, i) == SelectSeq([j \in DOMAIN nodes |-> j], LAMBDA j : nodes[j].parent = i)

Step(op, node, child) == [op |-> op, node |-> node, child |-> child]

RECURSIVE FlattenSteps(_)
FlattenSteps(ss) == IF ss = <<>> THEN <<>> ELSE Head(ss) \o FlattenSteps(Tail(ss))

\* a walk that builds the children of a node before the node itself
RECURSIVE WalkChildrenFirst(_, _)
WalkChildrenFirst(nodes, i) ==
    LET cs == Children(nodes, i)
    IN  FlattenSteps([k \in DOMAIN cs |-> WalkChildrenFirst(nodes, cs[k])])
        \o <<Step("realize", i, 0)>>
        \o [k \in DOMAIN cs |-> Step("add_child", i, cs[k])]
        \o <<Step("configure", i, 0), Step("layout", i, 0)>>

\* the walk of the subtree of node i: the node is realized, then each child
\* subtree is walked and the child added, then the node is configured and
\* laid out
RECURSIVE Walk(_, _)
Walk(nodes, i) ==
    LET cs == Children(nodes, i)
    IN  <<Step("realize", i, 0)>>
        \o FlattenSteps([k \in DOMAIN cs |->
                            Walk(nodes, cs[k]) \o <<Step("add_child", i, cs[k])>>])
        \o <<Step("configure", i, 0), Step("layout", i, 0)>>

\* the builder object a node is realized under: the caller's master for the
\* root
ParentOf(nodes, i) == IF nodes[i].parent = 0 THEN parent ELSE nodes[nodes[i].parent]

\* the calls of a realize, with the widget the constructor returned named
\* after the node
Relabel(cs, i) ==
    [k \in DOMAIN cs |->
        IF cs[k].op = "init" THEN [cs[k] EXCEPT !.widget = TreeWidgets[i]]
        ELSE cs[k]]

\* the step the walk is at
TreeStep == Walk(tree.nodes, 1)[tree.pc]
TreeWalking == phase = "tree" /\ tree.pc <= Len(Walk(tree.nodes, 1))

TreeRealize ==
    /\ TreeWalking
    /\ TreeStep.op = "realize"
    /\ LET i == TreeStep.node
           n == tree.nodes[i]
           p == ParentOf(tree.nodes, i)
           r == realize(n.cls, n.wmeta.properties, p, tk_rejects)
           n2 == [n EXCEPT !.widget = IF r.calls # <<>> /\ ~r.raised
                                      THEN TreeWidgets[i] ELSE r.widget,
                           !.realized = ~r.raised,
                           !.master = get_child_master(p)]
           nodes1 == [tree.nodes EXCEPT ![i] = n2]
           nodes2 == IF IsTreeviewColumn(n.cls) /\ n.parent # 0
                     THEN [nodes1 EXCEPT ![n.parent] = _setup_column(@, n.wmeta)]
                     ELSE nodes1
       IN  /\ calls' = calls \o Relabel(r.calls, i)
           /\ tree' = [tree EXCEPT !.nodes = nodes2, !.pc = @ + 1]
           /\ phase' = IF r.raised THEN "aborted" ELSE phase
           /\ result' = Result("realize", r.raised, NoneArg)
    /\ UNCHANGED <<regVars, bo, wmeta, parent, cmd_bag, tk_rejects, log, nops, code>>

TreeAddChild ==
    /\ TreeWalking
    /\ TreeStep.op = "add_child"
    /\ LET n == tree.nodes[TreeStep.node]
           r == add_child(n.cls, n.wmeta.properties, n.widget,
                          tree.nodes[TreeStep.child].widget, tk_rejects)
       IN  /\ calls' = calls \o r.calls
           /\ phase' = IF r.raised THEN "aborted" ELSE phase
           /\ result' = Result("add_child", r.raised, NoneArg)
    /\ tree' = [tree EXCEPT !.pc = @ + 1]
    /\ UNCHANGED <<regVars, bo, wmeta, parent, cmd_bag, tk_rejects, log, nops, code>>

TreeConfigure ==
    /\ TreeWalking
    /\ TreeStep.op = "configure"
    /\ LET n == tree.nodes[TreeStep.node]
           st == configure(n.cls, n.wmeta.properties, Run(calls, log), n.widget,
                           tk_rejects)
       IN  /\ calls' = IF IsTreeview(n.cls) /\ ~st.raised
                       THEN st.calls \o configure_columns(n) ELSE st.calls
           /\ log' = st.log
           /\ phase' = IF st.raised THEN "aborted" ELSE phase
           /\ result' = Result("configure", st.raised, NoneArg)
    /\ tree' = [tree EXCEPT !.pc = @ + 1]
    /\ UNCHANGED <<regVars, bo, wmeta, parent, cmd_bag, tk_rejects, nops, code>>

TreeLayout ==
    /\ TreeWalking
    /\ TreeStep.op = "layout"
    /\ LET n == tree.nodes[TreeStep.node]
           st == layout(n.cls, n.wmeta, Run(calls, log), n.widget)
       IN  /\ calls' = st.calls
           /\ phase' = IF st.raised THEN "aborted" ELSE phase
           /\ result' = Result("layout", st.raised, NoneArg)
    /\ tree' = [tree EXCEPT !.pc = @ + 1]
    /\ UNCHANGED <<regVars, bo, wmeta, parent, cmd_bag, tk_rejects, log, nops, code>>

\* the descriptions walked: the classes, the children each class takes, and
\* the property bags of each class
TreeClassNames ==
    {"ttk.Frame", "ttk.Button", "ttk.Panedwindow", "ttk.Panedwindow.Pane",
     "ttk.Notebook", "ttk.Notebook.Tab", "ttk.Treeview", "ttk.Treeview.Column"}
TreeRoots == {"ttk.Frame", "ttk.Panedwindow", "ttk.Notebook", "ttk.Treeview"}

allowed_children(classname) ==
    CASE classname = "ttk.Frame" -> {"ttk.Button", "ttk.Panedwindow", "ttk.Treeview"}
      [] classname = "ttk.Panedwindow" -> {"ttk.Panedwindow.Pane"}
      [] classname = "ttk.Panedwindow.Pane" -> {"ttk.Button"}
      [] classname = "ttk.Notebook" -> {"ttk.Notebook.Tab"}
      [] classname = "ttk.Notebook.Tab" -> {"ttk.Button", "ttk.Frame"}
      [] classname = "ttk.Treeview" -> {"ttk.Treeview.Column"}
      [] OTHER -> {}

\* maxchildren of the class is 1
OneChild(classname) == classname \in {"ttk.Panedwindow.Pane", "ttk.Notebook.Tab"}

ColumnBags ==
    {<<>>, <<KW("tree_column", "true")>>, <<KW("tree_column", "True"), KW("visible", "false")>>,
     <<KW("visible", "False")>>, <<KW("text", "Name"), KW("width", "80")>>,
     <<KW("heading_anchor", "e"), KW("stretch", "0")>>}

TreeClassBags(classname) ==
    CASE classname = "ttk.Treeview.Column" -> ColumnBags
      [] classname = "ttk.Panedwindow.Pane" -> {<<>>, <<KW("weight", "1")>>}
      [] classname = "ttk.Notebook.Tab" -> {<<KW("text", "hello"), KW("sticky", "nsew")>>}
      [] classname = "ttk.Panedwindow" -> {<<>>, <<KW("orient", "horizontal")>>}
      [] classname = "ttk.Button" -> {<<KW("text", "hello")>>}
      [] OTHER -> {<<>>}

\* node a is node j or one of its ancestors
RECURSIVE IsAncestorOrSelf(_, _, _)
IsAncestorOrSelf(par, a, j) ==
    j # 0 /\ (a = j \/ IsAncestorOrSelf(par, a, par[j]))

\* the parent indices and classes of a description in document order
DocValid(par, cl) ==
    /\ par[1] = 0
    /\ cl[1] \in TreeRoots
    /\ \A i \in DOMAIN par \ {1} :
        /\ par[i] \in 1..(i - 1)
        /\ IsAncestorOrSelf(par, par[i], i - 1)
        /\ cl[i] \in allowed_children(cl[par[i]])
    /\ \A i \in DOMAIN par :
        OneChild(cl[i]) => Cardinality({j \in DOMAIN par : par[j] = i}) <= 1

\* the property bags of the nodes, one per node, for the classes cl
RECURSIVE DocBags(_)
DocBags(cl) ==
    IF cl = <<>> THEN {<<>>}
    ELSE {<<b>> \o rest : b \in TreeClassBags(Head(cl)), rest \in DocBags(Tail(cl))}

InitTree ==
    \E n \in 1..MaxNodes :
      \E par \in [1..n -> 0..(n - 1)], cl \in [1..n -> TreeClassNames] :
        /\ DocValid(par, cl)
        /\ \E bags \in DocBags(cl) :
            /\ tree = [nodes |-> [i \in 1..n |->
                          TreeNode([WidgetMeta(cl[i], bags[i], "grid", <<>>, Some("grid"),
                                               <<>>, <<>>)
                                      EXCEPT !.identifier = TreeIds[i]],
                                   par[i])],
                       pc |-> 1]
            /\ CLASS_MAP = StdClassMap
            /\ CUSTOM_PROPERTIES = EmptyDict
            /\ wcalls = EmptyDict
            /\ lastReg = NoReg
            /\ wmeta = WidgetMeta("", <<>>, "", <<>>, NoneArg, <<>>, <<>>)
            /\ bo = [cls |-> "", widget |-> NoWidget]
            /\ parent = [widget |-> "m1"]
            /\ tk_rejects = {}
            /\ cmd_bag = NoBag
            /\ phase = "tree"
            /\ calls = <<>>
            /\ log = <<>>
            /\ result = NoResult
            /\ nops = NoOps
            /\ code = NoCode

NextTree == TreeRealize \/ TreeAddChild \/ TreeConfigure \/ TreeLayout

SpecTree == InitTree /\ [][NextTree]_vars

----------------------------------------------------------------------------
(* Code generation: builderobject.py lines 369-436, 494-548, 693-711,     *)
(* 760-779. A source statement is modelled by its parts: the operation,   *)
(* the identifier it works on, and its positional and keyword arguments,  *)
(* each keyword value in the form the statement spells it                 *)

Stmt(op, target, pos, kw) == [op |-> op, target |-> target, pos |-> pos, kw |-> kw]

\* the outcome of a code_* method: the statements returned, or raised
Emitted(lines) == Some([raised |-> FALSE, lines |-> lines])
EmitRaised == Some([raised |-> TRUE, lines |-> <<>>])

\* the texts for which str.isnumeric() or isfloat() is true
Numerals == {"0", "1", "2", "4", "10", "20", "80", "200", "1.5"}
isnumeric_or_isfloat(value) == value \in Numerals

\* the default processing of a value: bare when numeric, quoted otherwise
code_literal(value) ==
    IF isnumeric_or_isfloat(value) THEN Obj("bare", value, <<>>)
    ELSE Obj("quoted", value, <<>>)

TRANSLATABLE_PROPERTIES == {"label", "text", "title"}

\* BuilderObject._code_process_property_value: the text the statement
\* spells for the value, or raised when tk.getboolean refuses the value
_code_process_property_value(cls, pname, value) ==
    IF pname \in tkvar_properties
    THEN [raised |-> FALSE, val |-> Obj("variable", value, <<>>)]
    ELSE IF pname \in SeqToSet(command_properties(cls))
    THEN [raised |-> FALSE, val |-> Obj("callback", json_loads(value).value, <<>>)]
    ELSE IF pname \in tkimage_properties
    THEN [raised |-> FALSE, val |-> Obj("image", value, <<>>)]
    ELSE IF pname = "takefocus"
    THEN IF getboolean(value) = "error"
         THEN [raised |-> TRUE, val |-> Str(value)]
         ELSE [raised |-> FALSE, val |-> Obj("bare", getboolean(value), <<>>)]
    ELSE IF pname \in TRANSLATABLE_PROPERTIES
    THEN [raised |-> FALSE, val |-> Obj("translated", value, <<>>)]
    ELSE [raised |-> FALSE, val |-> code_literal(value)]

\* BuilderObject._code_get_init_args: the read-only properties of the bag,
\* in ro_properties order
RECURSIVE _code_get_init_args(_, _, _)
_code_get_init_args(cls, props, i) ==
    IF i > Len(ro_properties(cls)) THEN [raised |-> FALSE, args |-> <<>>]
    ELSE LET rop == ro_properties(cls)[i]
             rest == _code_get_init_args(cls, props, i + 1)
         IN  IF rop \in bag_names(props)
             THEN LET pv == _code_process_property_value(cls, rop, bag_get(props, rop))
                  IN  IF pv.raised \/ rest.raised
                      THEN [raised |-> TRUE, args |-> <<>>]
                      ELSE [raised |-> FALSE,
                            args |-> <<KW(rop, pv.val)>> \o rest.args]
             ELSE rest

\* boparent.code_child_master(): the identifier that names the parent's
\* widget in the generated code
code_child_master(p) == p.widget

\* self.code_identifier()
code_identifier(wm, c) ==
    IF c._code_identifier.isNone THEN wm.identifier ELSE c._code_identifier.val

\* code_realize(boparent): the code state after the call; the helpers
\* take the parent's identifier and return no statement
code_realize(cls, wm, p, c) ==
    IF IsHelper(cls) \/ IsTreeviewColumn(cls)
    THEN [c EXCEPT !._code_identifier = Some(code_child_master(p)),
                   !.code_realize = Emitted(<<>>)]
    ELSE LET ia == _code_get_init_args(cls, wm.properties, 1)
         IN  IF ia.raised THEN [c EXCEPT !.code_realize = EmitRaised]
             ELSE [c EXCEPT !.code_realize =
                     Emitted(<<Stmt("init", code_identifier(wm, c),
                                    <<class_(cls), code_child_master(p)>>, ia.args)>>)]

CodeRealize ==
    /\ phase \in {"new", "realized"}
    /\ code.code_realize.isNone
    /\ code' = code_realize(bo.cls, wmeta, parent, code)
    /\ UNCHANGED <<regVars, bo, wmeta, parent, cmd_bag, phase, calls, tk_rejects, log,
                   result, nops, tree>>

\* one entry of code_bag: a keyword value, or (complex) a list of statements
CodeEntry(name, complex, val, lines) ==
    [name |-> name, complex |-> complex, val |-> val, lines |-> lines]

\* BuilderObject._code_set_property
BuilderObject_code_set_property(cls, wm, targetid, pname, value) ==
    LET pv == _code_process_property_value(cls, pname, value)
    IN  [raised |-> pv.raised, entry |-> CodeEntry(pname, FALSE, pv.val, <<>>)]

\* EntryBaseBO._code_set_property
EntryBaseBO_code_set_property(cls, wm, targetid, pname, value) ==
    IF pname = "text"
    THEN LET unlock == /\ "state" \in bag_names(wm.properties)
                       /\ bag_get(wm.properties, "state") # "normal"
             lines ==
                <<Stmt("assign", "_text_", <<>>,
                       <<KW("value", Obj("translated", value, <<>>))>>)>>
                \o (IF unlock
                    THEN <<Stmt("setitem", targetid, <<>>,
                                <<KW("state", Obj("quoted", "normal", <<>>))>>)>>
                    ELSE <<>>)
                \o <<Stmt("delete", targetid, <<"0", "end">>, <<>>),
                     Stmt("insert", targetid, <<"0", "_text_">>, <<>>)>>
                \o (IF unlock
                    THEN <<Stmt("setitem", targetid, <<>>,
                                <<KW("state", Obj("quoted", bag_get(wm.properties, "state"),
                                                  <<>>))>>)>>
                    ELSE <<>>)
         IN  [raised |-> FALSE, entry |-> CodeEntry(pname, TRUE, Str(""), lines)]
    ELSE BuilderObject_code_set_property(cls, wm, targetid, pname, value)

\* self._code_set_property, resolved through the class's bases
_code_set_property(cls, wm, targetid, pname, value) ==
    IF IsEntryBaseBO(cls)
    THEN EntryBaseBO_code_set_property(cls, wm, targetid, pname, value)
    ELSE BuilderObject_code_set_property(cls, wm, targetid, pname, value)

\* a property loop that also leaves out the names the class does not declare
RECURSIVE _code_process_properties_declared(_, _, _, _, _)
_code_process_properties_declared(cls, wm, props, targetid, i) ==
    IF i > Len(props) THEN [raised |-> FALSE, code_bag |-> <<>>]
    ELSE LET pname == props[i].name
             rest == _code_process_properties_declared(cls, wm, props, targetid, i + 1)
         IN  IF /\ pname \notin SeqToSet(ro_properties(cls))
                /\ pname \notin SeqToSet(command_properties(cls))
                /\ pname \in properties(cls)
             THEN LET r == _code_set_property(cls, wm, targetid, pname, props[i].value)
                  IN  IF r.raised \/ rest.raised
                      THEN [raised |-> TRUE, code_bag |-> <<>>]
                      ELSE [raised |-> FALSE, code_bag |-> <<r.entry>> \o rest.code_bag]
             ELSE rest

\* BuilderObject._code_process_properties: code_bag for the bag's items
\* that are neither read-only nor commands, in bag order
RECURSIVE _code_process_properties(_, _, _, _, _)
_code_process_properties(cls, wm, props, targetid, i) ==
    IF i > Len(props) THEN [raised |-> FALSE, code_bag |-> <<>>]
    ELSE LET pname == props[i].name
             rest == _code_process_properties(cls, wm, props, targetid, i + 1)
         IN  IF /\ pname \notin SeqToSet(ro_properties(cls))
                /\ pname \notin SeqToSet(command_properties(cls))
             THEN LET r == _code_set_property(cls, wm, targetid, pname, props[i].value)
                  IN  IF r.raised \/ rest.raised
                      THEN [raised |-> TRUE, code_bag |-> <<>>]
                      ELSE [raised |-> FALSE, code_bag |-> <<r.entry>> \o rest.code_bag]
             ELSE rest

\* the property names the model uses, in the order sorted() puts them
SortedNames ==
    <<"bogus", "class_", "command", "orient", "show", "state", "sticky", "takefocus",
      "text", "weight">>

\* the keyword properties in the order the bag holds them
unsorted_kw(code_bag) ==
    LET kws == SelectSeq(code_bag, LAMBDA e : ~e.complex)
    IN  [i \in DOMAIN kws |-> KW(kws[i].name, kws[i].val)]

\* sorted(kwproperties) with its values
sorted_kw(code_bag) ==
    LET kws == SelectSeq(code_bag, LAMBDA e : ~e.complex)
        names == {kws[i].name : i \in DOMAIN kws}
        order == SelectSeq(SortedNames, LAMBDA n : n \in names)
    IN  [i \in DOMAIN order |->
            LET e == kws[CHOOSE j \in DOMAIN kws : kws[j].name = order[i]]
            IN  KW(e.name, e.val)]

\* grouper(seq, 4): the chunks of four, the last one shorter
RECURSIVE grouper(_, _)
grouper(s, n) ==
    IF s = <<>> THEN <<>>
    ELSE IF Len(s) <= n THEN <<s>>
    ELSE <<SubSeq(s, 1, n)>> \o grouper(SubSeq(s, n + 1, Len(s)), n)

RECURSIVE FlattenLines(_)
FlattenLines(ss) == IF ss = <<>> THEN <<>> ELSE Head(ss) \o FlattenLines(Tail(ss))

\* code_configure(): the code state after the call; the helpers return no
\* statement
code_configure(cls, wm, c) ==
    IF IsHelper(cls) \/ IsTreeviewColumn(cls)
    THEN [c EXCEPT !.code_configure = Emitted(<<>>)]
    ELSE LET targetid == code_identifier(wm, c)
             r == _code_process_properties(cls, wm, wm.properties, targetid, 1)
             groups == grouper(sorted_kw(r.code_bag), 4)
             complex == SelectSeq(r.code_bag, LAMBDA e : e.complex)
         IN  IF r.raised THEN [c EXCEPT !.code_configure = EmitRaised]
             ELSE [c EXCEPT !.code_configure =
                     Emitted([g \in DOMAIN groups |->
                                 Stmt("configure", targetid, <<>>, groups[g])]
                             \o FlattenLines([k \in DOMAIN complex |-> complex[k].lines]))]

CodeConfigure ==
    /\ phase \in {"new", "realized"}
    /\ ~code.code_realize.isNone
    /\ code.code_configure.isNone
    /\ code' = code_configure(bo.cls, wmeta, code)
    /\ UNCHANGED <<regVars, bo, wmeta, parent, cmd_bag, phase, calls, tk_rejects, log,
                   result, nops, tree>>

\* a node that is built and for which the code is generated
InitCode ==
    \E classname \in NodeClassNames, props \in Bags(BagItems, MaxProps) :
        NodeInit(classname, props, "grid", <<>>, Some("grid"), <<>>, <<>>,
                 "m1", {}, NoBag)

NextCode == Realize \/ Configure \/ CodeRealize \/ CodeConfigure

SpecCode == InitCode /\ [][NextCode]_vars

----------------------------------------------------------------------------
(* BuilderObject.code_layout: builderobject.py lines 438-492, 661-669 *)

\* BuilderObject._code_process_layout_property on every item of a bag
LayoutArgs(props) == [i \in DOMAIN props |-> KW(props[i].name, code_literal(props[i].value))]

\* the names of the layout properties in sorted() order
SortedLayoutNames == <<"padx", "side">>

\* sorted(layout.items())
sorted_items(props) ==
    LET order == SelectSeq(SortedLayoutNames, LAMBDA n : n \in bag_names(props))
    IN  [i \in DOMAIN order |-> KW(order[i], bag_get(props, order[i]))]

\* str(container_manager) as the format call spells it
manager_str(cm) == IF cm.isNone THEN "None" ELSE cm.val

\* the method name "{manager}_propagate"
propagate_op(m) ==
    CASE m = "grid" -> "grid_propagate"
      [] m = "pack" -> "pack_propagate"
      [] m = "place" -> "place_propagate"
      [] OTHER -> "None_propagate"

\* str.lower() on the values of propagate
str_lower(x) ==
    CASE x = "True" -> "true"
      [] x = "False" -> "false"
      [] OTHER -> x

\* the keys of rowbag (type "row") or colbag, in the order of first insertion
RECURSIVE gridrc_keys(_, _, _)
gridrc_keys(gridrc, isrow, seen) ==
    IF gridrc = <<>> THEN <<>>
    ELSE LET g == Head(gridrc)
         IN  IF (g.type = "row") = isrow /\ g.num \notin seen
             THEN <<g.num>> \o gridrc_keys(Tail(gridrc), isrow, seen \cup {g.num})
             ELSE gridrc_keys(Tail(gridrc), isrow, seen)

\* the rowconfigure (or columnconfigure) statements: one per key, with the
\* arguments appended for that key
code_gridrc(gridrc, isrow, targetid) ==
    LET keys == gridrc_keys(gridrc, isrow, {})
    IN  [k \in DOMAIN keys |->
            LET bag == SelectSeq(gridrc,
                                 LAMBDA g : (g.type = "row") = isrow /\ g.num = keys[k])
                rcid == IF keys[k] = "all" THEN Obj("quoted", keys[k], <<>>)
                        ELSE Obj("bare", keys[k], <<>>)
            IN  Stmt(IF isrow THEN "rowconfigure" ELSE "columnconfigure", targetid,
                     <<rcid>>,
                     [j \in DOMAIN bag |-> KW(bag[j].pname, code_literal(bag[j].value))])]

\* the placement stage of code_layout
code_layout_manager(cls, wm, targetid) ==
    IF layout_required(cls)
    THEN <<Stmt(wm.manager, targetid, <<>>, LayoutArgs(sorted_items(wm.layout_properties)))>>
    ELSE <<>>

\* the container stage of code_layout
code_layout_container(cls, wm, targetid) ==
    IF container_layout(cls)
    THEN LET manager == manager_str(wm.container_manager)
             cprops == wm.container_properties
             pvalue == str_lower(bag_get_default(cprops, "propagate", ""))
             l1 == IF "propagate" \in bag_names(cprops) /\ pvalue = "false"
                   THEN <<Stmt(propagate_op(manager), targetid,
                               <<Obj("bare", "0", <<>>)>>, <<>>)>>
                   ELSE <<>>
             l2 == IF manager = "grid" /\ "anchor" \in bag_names(cprops)
                   THEN <<Stmt("grid_anchor", targetid,
                               <<Obj("quoted", bag_get(cprops, "anchor"), <<>>)>>, <<>>)>>
                   ELSE <<>>
         IN  l1 \o l2 \o code_gridrc(wm.gridrc_properties, TRUE, targetid)
                \o code_gridrc(wm.gridrc_properties, FALSE, targetid)
    ELSE <<>>

\* code_layout(): the code state after the call; the pane helper returns
\* no statement
code_layout(cls, wm, c) ==
    IF cls = "TTKPanedwindowPane"
    THEN [c EXCEPT !.code_layout = Emitted(<<>>)]
    ELSE LET targetid == code_identifier(wm, c)
         IN  [c EXCEPT !.code_layout =
                 Emitted(code_layout_manager(cls, wm, targetid)
                         \o code_layout_container(cls, wm, targetid))]

CodeLayout ==
    /\ phase \in {"new", "realized", "aborted"}
    /\ code.code_layout.isNone
    /\ code' = code_layout(bo.cls, wmeta, code)
    /\ UNCHANGED <<regVars, bo, wmeta, parent, cmd_bag, phase, calls, tk_rejects, log,
                   result, nops, tree>>

NextCodeLayout == Realize \/ Layout \/ CodeLayout

\* a node that is laid out and for which the layout code is generated
SpecCodeLayout == InitLayout /\ [][NextCodeLayout]_vars

----------------------------------------------------------------------------
(* code_configure on bags large enough for more than one configure       *)
(* statement                                                              *)

\* the most properties of a node whose configure statements are grouped
MaxCodeProps == 6

CodeConfigureItems ==
    {KW("bogus", "1"), KW("class_", "My.TFrame"), KW("show", "*"), KW("state", "disabled"),
     KW("takefocus", "true"), KW("text", "hello"), KW("weight", "1")}

CodeConfigureClassNames == {"ttk.Frame", "ttk.Entry"}

InitCodeConfigure ==
    \E classname \in CodeConfigureClassNames,
       props \in Bags(CodeConfigureItems, MaxCodeProps) :
        NodeInit(classname, props, "grid", <<>>, Some("grid"), <<>>, <<>>,
                 "m1", {}, NoBag)

NextCodeConfigure == CodeRealize \/ CodeConfigure

SpecCodeConfigure == InitCodeConfigure /\ [][NextCodeConfigure]_vars

----------------------------------------------------------------------------
(* The registries while the modules are loaded: no node is being built *)

NoNode ==
    /\ wmeta = WidgetMeta("", <<>>, "", <<>>, NoneArg, <<>>, <<>>)
    /\ bo = [cls |-> "", widget |-> NoWidget]
    /\ parent = [widget |-> NoWidget]
    /\ tk_rejects = {}
    /\ cmd_bag = NoBag
    /\ phase = "load"
    /\ calls = <<>>
    /\ log = <<>>
    /\ result = NoResult
    /\ nops = NoOps
    /\ code = NoCode
    /\ tree = NoTree

InitRegistry == RegistryInit /\ NoNode

RegisterWidget ==
    \E classname \in RegClassNames, builder \in RegBuilders,
       label \in {NoneArg} \cup {Some(l) : l \in RegLabels},
       tags \in {NoneArg} \cup {Some(t) : t \in RegTags} :
        /\ register_widget(classname, builder, label, tags)
        /\ UNCHANGED boVars

NextWidgets == RegisterWidget

SpecWidgets == InitRegistry /\ [][NextWidgets]_vars

\* the most property registrations made
MaxRegs == 3

nodeVars ==
    <<bo, wmeta, parent, cmd_bag, phase, calls, tk_rejects, log, result, code, tree>>

RegisterProperty ==
    \E name \in RegPropNames, description \in RegDescriptions :
        /\ nops.register_property < MaxRegs
        /\ register_property(name, description)
        /\ nops' = [nops EXCEPT !.register_property = @ + 1]
        /\ UNCHANGED nodeVars

RegisterCustomProperty ==
    \E builder_uid \in RegBuilderUids, prop_name \in RegPropNames,
       editor \in RegEditors,
       default_value \in {NoneArg} \cup {Some(d) : d \in RegDefaults},
       help \in {NoneArg} \cup {Some(h) : h \in RegHelps},
       editor_params \in RegEditorParams :
        /\ nops.register_property < MaxRegs
        /\ register_custom_property(builder_uid, prop_name, editor, default_value,
                                    help, editor_params)
        /\ nops' = [nops EXCEPT !.register_property = @ + 1]
        /\ UNCHANGED nodeVars

NextProperties == RegisterProperty \/ RegisterCustomProperty

SpecProperties == InitRegistry /\ [][NextProperties]_vars

----------------------------------------------------------------------------
(* The life of a process: the modules are loaded (the standard            *)
(* registrations are made), further registrations may follow, and a node  *)
(* is built and its code generated by the builder-object operations       *)

\* the nodes handed to factory: class name, properties and bindings
LifecycleNodes ==
    {[classname |-> "ttk.Frame", properties |-> <<KW("class_", "My.TFrame"), KW("bogus", "1")>>,
      bindings |-> <<>>],
     [classname |-> "ttk.Button", properties |-> <<KW("command", CmdOnA), KW("text", "hello")>>,
      bindings |-> <<BindingMeta("<Button-1>", "on_b", "")>>],
     [classname |-> "ttk.Panedwindow.Pane", properties |-> <<KW("weight", "1")>>,
      bindings |-> <<>>]}

LifecycleBags == {[kind |-> "dict", names |-> [n \in {"on_a"} |-> Callables[n]]]}

InitLifecycle ==
    /\ CLASS_MAP = StdClassMap
    /\ CUSTOM_PROPERTIES = EmptyDict
    /\ wcalls = EmptyDict
    /\ lastReg = NoReg
    /\ NoNode

\* a factory that also enters the node's class in the widget registry
FactoryRegistering ==
    /\ phase = "load"
    /\ \E node \in LifecycleNodes, bag \in LifecycleBags :
        /\ node.classname \in DOMAIN CLASS_MAP
        /\ CLASS_MAP[node.classname].builder \in Builders
        /\ wmeta' = [WidgetMeta(node.classname, node.properties, "grid", <<>>,
                                Some("grid"), <<>>, <<>>)
                        EXCEPT !.bindings = node.bindings]
        /\ bo' = [cls |-> CLASS_MAP[node.classname].builder, widget |-> NoWidget]
        /\ parent' = [widget |-> "m1"]
        /\ cmd_bag' = bag
        /\ CLASS_MAP' = dict_set(CLASS_MAP, node.classname,
                                 WidgetDescription(node.classname,
                                                   CLASS_MAP[node.classname].builder,
                                                   node.classname, <<"built">>))
    /\ phase' = "new"
    /\ UNCHANGED <<CUSTOM_PROPERTIES, wcalls, lastReg, calls, tk_rejects, log, result,
                   nops, code, tree>>

\* cls.factory(builder, wdata) for the class registered under the node's
\* class name: the builder object is made with no widget and no identifier
Factory ==
    /\ phase = "load"
    /\ \E node \in LifecycleNodes, bag \in LifecycleBags :
        /\ node.classname \in DOMAIN CLASS_MAP
        /\ CLASS_MAP[node.classname].builder \in Builders
        /\ wmeta' = [WidgetMeta(node.classname, node.properties, "grid", <<>>,
                                Some("grid"), <<>>, <<>>)
                        EXCEPT !.bindings = node.bindings]
        /\ bo' = [cls |-> CLASS_MAP[node.classname].builder, widget |-> NoWidget]
        /\ parent' = [widget |-> "m1"]
        /\ cmd_bag' = bag
    /\ phase' = "new"
    /\ UNCHANGED <<regVars, calls, tk_rejects, log, result, nops, code, tree>>

\* no further registration has been made since the standard ones
NoFurtherRegistration == wcalls = EmptyDict /\ lastReg = NoReg

\* one further registration made while the modules load
LoadRegisterWidget == phase = "load" /\ NoFurtherRegistration /\ RegisterWidget
LoadRegisterProperty == phase = "load" /\ NoFurtherRegistration /\ RegisterProperty
LoadRegisterCustomProperty == phase = "load" /\ NoFurtherRegistration /\ RegisterCustomProperty

NextLifecycle ==
    \/ LoadRegisterWidget
    \/ LoadRegisterProperty
    \/ LoadRegisterCustomProperty
    \/ Factory
    \/ Realize
    \/ Configure
    \/ Layout
    \/ AddChild
    \/ ConnectCommands
    \/ ConnectBindings
    \/ CodeRealize
    \/ CodeConfigure
    \/ CodeLayout

SpecLifecycle == InitLifecycle /\ [][NextLifecycle]_vars

----------------------------------------------------------------------------
(* Properties of the registries *)

\* C1: after any sequence of register_widget calls, CLASS_MAP holds, for
\* exactly the names registered, the descriptor (classname, builder, label,
\* tags) of the latest call for that name, the label defaulting to the class
\* name and the tags to the empty tuple; the other names keep theirs.
C1_ClassMapHoldsLatestRegistration ==
    /\ DOMAIN CLASS_MAP = DOMAIN wcalls
    /\ \A n \in DOMAIN wcalls :
        /\ CLASS_MAP[n].classname = n
        /\ CLASS_MAP[n].builder = wcalls[n].builder
        /\ CLASS_MAP[n].label =
              IF wcalls[n].label.isNone THEN n ELSE wcalls[n].label.val
        /\ CLASS_MAP[n].tags =
              IF wcalls[n].tags.isNone THEN <<>> ELSE wcalls[n].tags.val

\* a name re-registered with label and tags omitted, next to another name
C1_Witness ==
    \E n, m \in DOMAIN wcalls :
        /\ n # m
        /\ wcalls[n].again
        /\ wcalls[n].label.isNone
        /\ wcalls[n].tags.isNone
        /\ ~wcalls[m].label.isNone

\* C2: re-registering a property name keeps every top-level field of the
\* existing descriptor that the new description does not hold, and takes
\* every field of the new description with the new value.
C2_ReRegistrationMergesFields ==
    lastReg.hadOld =>
        LET new == CUSTOM_PROPERTIES[lastReg.name]
        IN  /\ \A k \in (DOMAIN lastReg.old) \ (DOMAIN lastReg.desc) :
                    k \in DOMAIN new /\ new[k] = lastReg.old[k]
            /\ \A k \in DOMAIN lastReg.desc :
                    k \in DOMAIN new /\ new[k] = lastReg.desc[k]

\* a re-registration where both sides contribute a field of their own
C2_Witness ==
    /\ lastReg.hadOld
    /\ (DOMAIN lastReg.old) \ (DOMAIN lastReg.desc) # {}
    /\ (DOMAIN lastReg.desc) \ (DOMAIN lastReg.old) # {}
    /\ (DOMAIN lastReg.desc) \cap (DOMAIN lastReg.old) # {}

\* the keys under which both the existing descriptor and the new
\* description hold a nested dict
BothNested ==
    (DOMAIN lastReg.old) \cap (DOMAIN lastReg.desc) \cap NestedKeys

\* C3 (as claimed): when the existing descriptor and the new description
\* both hold a nested mapping under the same key, every field of the
\* existing nested mapping that the new one does not mention is still
\* present after the re-registration.
C3_DeepMergeKeepsNestedFields ==
    lastReg.hadOld =>
        \A k \in BothNested :
            \A f \in (DOMAIN lastReg.old[k]) \ (DOMAIN lastReg.desc[k]) :
                f \in DOMAIN CUSTOM_PROPERTIES[lastReg.name][k]

\* C3 (amended): the merge is one level deep only; under a key that both
\* hold, the new nested mapping replaces the existing one, and the fields
\* only the existing one had are gone.
C3_NestedMappingReplaced ==
    lastReg.hadOld =>
        \A k \in BothNested :
            /\ DOMAIN CUSTOM_PROPERTIES[lastReg.name][k] = DOMAIN lastReg.desc[k]
            /\ \A f \in (DOMAIN lastReg.old[k]) \ (DOMAIN lastReg.desc[k]) :
                    f \notin DOMAIN CUSTOM_PROPERTIES[lastReg.name][k]

\* a builder uid's override registered again with fewer fields
C3_Witness ==
    /\ lastReg.hadOld
    /\ \E k \in BothNested \cap RegBuilderUids :
            (DOMAIN lastReg.old[k]) \ (DOMAIN lastReg.desc[k]) # {}

----------------------------------------------------------------------------
(* Properties of realize, configure and add_child *)

\* the builder class the registry resolves the node's class name to
NodeBuilder == CLASS_MAP[wmeta.classname].builder

\* realize has returned a widget to the builder object
Realized == bo.widget # NoWidget

\* the calls of operation op on widget w that carry keyword name
CallsWith(op, w, name) ==
    {i \in DOMAIN calls :
        /\ calls[i].op = op
        /\ calls[i].widget = w
        /\ \E j \in DOMAIN calls[i].kw : calls[i].kw[j].name = name}

RoInBag == SeqToSet(ro_properties(bo.cls)) \cap bag_names(wmeta.properties)

\* C4: for a class name registered to a widget-owning variant, realize
\* constructs one new instance of the variant's wrapped class under the
\* parent's child master, stores it as the builder object's widget and
\* returns it; a "ttk.Labelframe" node yields a ttk.Labelframe.
C4_RealizeConstructsWrappedClass ==
    (result.op = "realize" /\ ~result.raised /\ ~IsHelper(NodeBuilder)) =>
        /\ bo.widget = NewWidget
        /\ result.ret = Some(bo.widget)
        /\ Len(calls) = 1
        /\ calls[1].op = "init"
        /\ calls[1].widget = bo.widget
        /\ calls[1].pos = <<class_(NodeBuilder), parent.widget>>
        /\ (wmeta.classname = "ttk.Labelframe" => calls[1].pos[1] = "ttk.Labelframe")

\* a ttk.Labelframe node realized under the second parent widget
C4_Witness ==
    /\ result.op = "realize"
    /\ ~result.raised
    /\ wmeta.classname = "ttk.Labelframe"
    /\ parent.widget = "m2"
    /\ bo.widget = NewWidget

\* C5 (as claimed): once realize has returned, every read-only property of
\* the bag has been passed to the constructor exactly once, and configure,
\* however often it is called, never sets it.
C5_ReadOnlyAppliedOnceAtConstruction ==
    Realized =>
        \A p \in RoInBag :
            /\ Cardinality(CallsWith("init", bo.widget, p)) = 1
            /\ CallsWith("setitem", bo.widget, p) = {}

\* C5 (amended): the same for the widget-owning variants; a helper variant
\* constructs nothing, so its read-only properties are passed to no
\* constructor, and configure never sets them either.
C5_ReadOnlyOnlyAtConstruction ==
    Realized =>
        \A p \in RoInBag :
            /\ Cardinality(CallsWith("init", bo.widget, p)) =
                    (IF IsHelper(bo.cls) THEN 0 ELSE 1)
            /\ CallsWith("setitem", bo.widget, p) = {}

\* a paned window with both of its read-only properties in the bag,
\* configured as often as the bound allows
C5_Witness ==
    /\ Realized
    /\ bo.cls = "TTKPanedwindow"
    /\ RoInBag = {"class_", "orient"}
    /\ result.op = "configure"
    /\ nops.configure = MaxConfigure

\* the properties of the bag that configure is to apply
Configurable ==
    {i \in DOMAIN wmeta.properties :
        /\ wmeta.properties[i].name \notin SeqToSet(ro_properties(bo.cls))
        /\ wmeta.properties[i].name \notin SeqToSet(command_properties(bo.cls))}

Logged(level, pname) ==
    \E i \in DOMAIN log : log[i] = LogRec(level, pname)

\* the property was handed to the widget: an item assignment, or for an
\* entry's text an insert of the value
Applied(pname, value) ==
    \/ CallsWith("setitem", bo.widget, pname) # {}
    \/ /\ pname = "text"
       /\ \E i \in DOMAIN calls :
            /\ calls[i].op = "insert"
            /\ calls[i].widget = bo.widget
            /\ calls[i].pos = <<"0", value>>

\* C6: configure never propagates an error because of a property of the
\* bag: an unknown name is logged and skipped, a value rejected while it is
\* processed or set is logged and skipped, and every remaining property
\* is still applied.
C6_ConfigureNeverRaises ==
    (result.op = "configure" /\ ~IsHelper(bo.cls)) =>
        /\ ~result.raised
        /\ \A i \in Configurable :
            LET pname == wmeta.properties[i].name
            IN  \/ pname \notin properties(bo.cls) /\ Logged("warning", pname)
                \/ Logged("error", pname)
                \/ Applied(pname, wmeta.properties[i].value)

\* C7: a property value of the bag reaches a widget (constructor argument,
\* item assignment, entry text, or a helper's add call) only if its name is
\* in the variant's declared property set.
C7_OnlyDeclaredPropertiesApplied ==
    \A i \in DOMAIN calls :
        /\ \A j \in DOMAIN calls[i].kw :
                calls[i].kw[j].name \in properties(bo.cls)
        /\ calls[i].op = "insert" => "text" \in properties(bo.cls)

----------------------------------------------------------------------------
(* Properties of layout *)

IsGeometryCall(c) == c.op \in {"grid", "pack", "place"}
IsPolicyCall(c) ==
    c.op \in {"grid_anchor", "grid_propagate", "pack_propagate",
              "rowconfigure", "columnconfigure"}
IsRCCall(c) == c.op \in {"rowconfigure", "columnconfigure"}

GeometryCalls == SelectSeq(calls, IsGeometryCall)
PolicyCalls == SelectSeq(calls, IsPolicyCall)
RCCalls == SelectSeq(calls, IsRCCall)

\* C8: layout on a variant that requires layout makes exactly one
\* geometry-manager call on the target, the one the node's manager names,
\* with the node's layout properties; for any other manager value it raises
\* and makes no geometry-manager call.
C8_OneGeometryCallOrError ==
    (result.op = "layout" /\ layout_required(bo.cls)) =>
        IF wmeta.manager \in {"grid", "pack", "place"}
        THEN /\ Len(GeometryCalls) = 1
             /\ GeometryCalls[1].op = wmeta.manager
             /\ GeometryCalls[1].widget = bo.widget
             /\ Len(GeometryCalls[1].kw) = Len(wmeta.layout_properties)
             /\ \A i \in DOMAIN wmeta.layout_properties :
                    /\ GeometryCalls[1].kw[i].name = wmeta.layout_properties[i].name
                    /\ GeometryCalls[1].kw[i].value.v = wmeta.layout_properties[i].value
        ELSE /\ result.raised
             /\ GeometryCalls = <<>>

\* a node packed with its layout properties
C8_Witness ==
    /\ result.op = "layout"
    /\ layout_required(bo.cls)
    /\ wmeta.manager = "pack"
    /\ wmeta.layout_properties # <<>>
    /\ Len(GeometryCalls) = 1

\* the container properties as the claim reads them
AnchorGiven ==
    \E i \in DOMAIN wmeta.container_properties :
        /\ wmeta.container_properties[i].name = "anchor"
        /\ wmeta.container_properties[i].value # ""
PropagateOff ==
    \E i \in DOMAIN wmeta.container_properties :
        /\ wmeta.container_properties[i].name = "propagate"
        /\ wmeta.container_properties[i].value \in {"False", "false", "0", "no", "off"}

PolicyCall(op, arg) ==
    \E i \in DOMAIN PolicyCalls :
        /\ PolicyCalls[i].op = op
        /\ PolicyCalls[i].widget = bo.widget
        /\ PolicyCalls[i].pos = <<arg>>

PolicyOps == {PolicyCalls[i].op : i \in DOMAIN PolicyCalls}

\* C9: a layout-governing container applies the container policy to the
\* target: for grid the anchor when one is given, propagation off when
\* propagate is false, and every row/column sizing entry; for pack
\* propagation off when propagate is false; a missing container manager is
\* a fatal error.  A variant that is no layout-governing container applies
\* no container policy and does not raise for a missing container manager.
C9_ContainerPolicy ==
    (/\ result.op = "layout"
     /\ (layout_required(bo.cls) => wmeta.manager \in {"grid", "pack", "place"})) =>
        IF container_layout(bo.cls)
        THEN LET cm == wmeta.container_manager
                 rc == wmeta.gridrc_properties
             IN  /\ cm.isNone => result.raised
                 /\ (~cm.isNone /\ cm.val = "grid") =>
                        /\ ~result.raised
                        /\ AnchorGiven <=>
                              PolicyCall("grid_anchor",
                                  bag_get_default(wmeta.container_properties, "anchor", ""))
                        /\ PropagateOff <=> PolicyCall("grid_propagate", "0")
                        /\ "pack_propagate" \notin PolicyOps
                        /\ Len(RCCalls) = Len(rc)
                        /\ \A i \in DOMAIN rc :
                              /\ RCCalls[i].op = (IF rc[i].type = "row"
                                                  THEN "rowconfigure"
                                                  ELSE "columnconfigure")
                              /\ RCCalls[i].widget = bo.widget
                              /\ RCCalls[i].pos = <<rc[i].num>>
                              /\ Len(RCCalls[i].kw) = 1
                              /\ RCCalls[i].kw[1].name = rc[i].pname
                              /\ RCCalls[i].kw[1].value.v = rc[i].value
                 /\ (~cm.isNone /\ cm.val = "pack") =>
                        /\ ~result.raised
                        /\ PropagateOff <=> PolicyCall("pack_propagate", "0")
                        /\ PolicyOps \subseteq {"pack_propagate"}
        ELSE /\ ~result.raised
             /\ PolicyCalls = <<>>

\* a grid container with an anchor, propagation off, and a row and a column
\* sizing entry
C9_Witness ==
    /\ result.op = "layout"
    /\ container_layout(bo.cls)
    /\ wmeta.container_manager = Some("grid")
    /\ AnchorGiven
    /\ PropagateOff
    /\ \E i, j \in DOMAIN wmeta.gridrc_properties :
            /\ wmeta.gridrc_properties[i].type = "row"
            /\ wmeta.gridrc_properties[j].type = "col"
    /\ Len(RCCalls) = Len(wmeta.gridrc_properties)

----------------------------------------------------------------------------
(* Properties of connect_commands *)

\* the declared command properties of the bag whose callback name is not blank
DeclaredCommands ==
    {pn \in SeqToSet(command_properties(bo.cls)) \cap bag_names(wmeta.properties) :
        strip(json_loads(bag_get(wmeta.properties, pn)).value) # ""}

CommandName(pn) == json_loads(bag_get(wmeta.properties, pn)).value

\* the widget's command option pn was configured with a callback made of fn
Connected(pn, fn) ==
    \E i \in DOMAIN calls :
        /\ calls[i].op = "configure"
        /\ calls[i].widget = bo.widget
        /\ Len(calls[i].kw) = 1
        /\ calls[i].kw[1].name = pn
        /\ calls[i].kw[1].value.v = fn

NotConnected == IF result.ret.isNone THEN {} ELSE SeqToSet(result.ret.val)

\* C10: connect_commands never raises for an unresolved name: each declared
\* command property of the bag with a non-blank callback name is connected
\* to the widget when the caller's bag holds the name, and is listed in the
\* returned not-connected list otherwise; a missing name does not keep the
\* other commands from being connected.
C10_CommandsConnectedOrReported ==
    result.op = "connect_commands" =>
        /\ ~result.raised
        /\ \A pn \in DeclaredCommands :
            IF CommandName(pn) \in DOMAIN cmd_bag.names
            THEN Connected(pn, cmd_bag.names[CommandName(pn)])
            ELSE /\ CommandName(pn) \in NotConnected
                 /\ CallsWith("configure", bo.widget, pn) = {}

\* an entry whose first command name is missing from the bag and whose
\* second is found
C10_Witness ==
    /\ result.op = "connect_commands"
    /\ bo.cls = "TTKEntry"
    /\ {"validatecommand", "invalidcommand"} \subseteq DeclaredCommands
    /\ CommandName("validatecommand") \notin DOMAIN cmd_bag.names
    /\ CommandName("invalidcommand") \in DOMAIN cmd_bag.names
    /\ Connected("invalidcommand", cmd_bag.names[CommandName("invalidcommand")])

----------------------------------------------------------------------------
(* Properties of connect_bindings *)

\* the bindings of the node whose handler the caller's bag holds, and the
\* others, both in declared order
ResolvedBindings ==
    SelectSeq(wmeta.bindings, LAMBDA b : b.handler \in DOMAIN cmd_bag.names)
UnresolvedBindings ==
    SelectSeq(wmeta.bindings, LAMBDA b : b.handler \notin DOMAIN cmd_bag.names)

\* the bind calls made on widgets, in order
BindCalls == SelectSeq(calls, LAMBDA c : c.op = "bind")

\* the list connect_bindings returned (None stands for no name)
NotConnectedList == IF result.ret.isNone THEN <<>> ELSE result.ret.val

\* C11: connect_bindings never raises for an unresolved handler: the
\* bindings whose handler name the caller's bag holds are bound on the
\* widget, in declared order, each with its event sequence, the bag's
\* callable and its additive flag; the handler names the bag does not hold
\* are returned, in declared order, as the not-connected list; a missing
\* handler does not keep the other bindings from being bound.
C11_BindingsBoundOrReported ==
    result.op = "connect_bindings" =>
        /\ ~result.raised
        /\ Len(BindCalls) = Len(ResolvedBindings)
        /\ \A i \in DOMAIN BindCalls :
            /\ BindCalls[i].widget = bo.widget
            /\ BindCalls[i].pos = <<ResolvedBindings[i].sequence,
                                    cmd_bag.names[ResolvedBindings[i].handler]>>
            /\ BindCalls[i].kw = <<KW("add", Str(ResolvedBindings[i].add))>>
        /\ NotConnectedList =
              [i \in DOMAIN UnresolvedBindings |-> UnresolvedBindings[i].handler]

\* a node whose first binding names a handler the bag does not hold and
\* whose second, additive, binding was bound
C11_Witness ==
    /\ result.op = "connect_bindings"
    /\ Len(wmeta.bindings) = 2
    /\ wmeta.bindings[1].handler \notin DOMAIN cmd_bag.names
    /\ wmeta.bindings[2].handler \in DOMAIN cmd_bag.names
    /\ wmeta.bindings[2].add = "+"
    /\ Len(BindCalls) = 1
    /\ BindCalls[1].kw = <<KW("add", Str("+"))>>
    /\ NotConnectedList = <<wmeta.bindings[1].handler>>

----------------------------------------------------------------------------
(* Properties of the two bag shapes *)

\* the bag of the other shape exposing the same names bound to the same
\* callables
OtherShape(bag) == [bag EXCEPT !.kind = IF @ = "dict" THEN "object" ELSE "dict"]

\* the calls made on widgets by the connect operations, in order
CommandCalls == SelectSeq(calls, LAMBDA c : c.op \in {"register", "configure"})

\* C12: the two bag shapes are equivalent: what connect_commands and
\* connect_bindings did with the caller's bag (the calls made on the widget,
\* with their callables, and the value returned) is what they do with the
\* bag of the other shape that exposes the same names bound to the same
\* callables.
C12_BagShapesEquivalent ==
    /\ result.op = "connect_commands" =>
        LET r == connect_commands(bo.cls, wmeta.properties, OtherShape(cmd_bag),
                                  bo.widget, <<>>, <<>>)
        IN  /\ r.calls = CommandCalls
            /\ r.ret = result.ret
    /\ result.op = "connect_bindings" =>
        LET r == connect_bindings(wmeta.bindings, OtherShape(cmd_bag), bo.widget, <<>>)
        IN  /\ r.calls = BindCalls
            /\ r.ret = result.ret

\* an object bag that resolved one binding and left another unresolved,
\* after a command was connected
C12_Witness ==
    /\ result.op = "connect_bindings"
    /\ cmd_bag.kind = "object"
    /\ Len(BindCalls) = 1
    /\ Len(NotConnectedList) = 1
    /\ Len(CommandCalls) > 0

----------------------------------------------------------------------------
(* Properties of the entry-like variants *)

\* the state option and the content of the node's widget, given the calls
EntryState(cs) == widget_option(cs, bo.widget, "state", "normal")
EntryContent(cs) == entry_content(cs, bo.widget)

\* the toolkit accepted the unlocking assignment and the content was then
\* deleted
Unlocked ==
    \E i \in DOMAIN calls :
        /\ i < Len(calls)
        /\ calls[i].op = "setitem"
        /\ calls[i].kw = <<KW("state", Str("normal"))>>
        /\ calls[i + 1].op = "delete"

\* C13: a configure of an entry-like widget whose bag holds "text" leaves
\* the given string as the whole content, whatever the widget's state was,
\* and the text assignment leaves the state as it found it: after the call
\* the state is the one the bag's own accepted "state" property assigns, and
\* the state from before the call when the bag assigns none.
C13_TextKeepsState ==
    [][(/\ nops'.configure = nops.configure + 1
        /\ IsEntryBaseBO(bo.cls)
        /\ "text" \in bag_names(wmeta.properties)
        /\ ~result'.raised)
       => /\ EntryContent(calls') = <<bag_get(wmeta.properties, "text")>>
          /\ EntryState(calls') =
                IF "state" \in bag_names(wmeta.properties) /\ "state" \notin tk_rejects
                THEN bag_get(wmeta.properties, "state")
                ELSE EntryState(calls)]_vars

\* a read-only entry whose content was replaced a second time
C13_Witness ==
    /\ result.op = "configure"
    /\ nops.configure = 2
    /\ bo.cls = "TTKEntry"
    /\ EntryState(calls) = "readonly"
    /\ Unlocked
    /\ EntryContent(calls) = <<"hello">>

----------------------------------------------------------------------------
(* Properties of the tree/table variant *)

\* the tree builder objects all of whose column children have been realized
TreesWithColumns ==
    {t \in DOMAIN tree.nodes :
        /\ IsTreeview(tree.nodes[t].cls)
        /\ tree.nodes[t].realized
        /\ \A j \in DOMAIN tree.nodes :
            tree.nodes[j].parent = t => tree.nodes[j].realized}

\* the column and heading configurations the tree builder object t holds
HeldColumns(t) ==
    IF tree.nodes[t]._columns.isNone THEN <<>> ELSE tree.nodes[t]._columns.val
HeldHeadings(t) ==
    IF tree.nodes[t]._headings.isNone THEN <<>> ELSE tree.nodes[t]._headings.val

\* the value of keyword name in the configuration kw
KwValue(kw, name) == kw[CHOOSE i \in DOMAIN kw : kw[i].name = name].value.v

\* the column configuration of the child wm: its properties, the defaults
\* for the omitted ones
IsColumnConfigOf(kw, wm) ==
    /\ {kw[i].name : i \in DOMAIN kw} = {"anchor", "stretch", "width", "minwidth"}
    /\ KwValue(kw, "anchor") = bag_get_default(wm.properties, "column_anchor", "")
    /\ KwValue(kw, "stretch") = bag_get_default(wm.properties, "stretch", "1")
    /\ KwValue(kw, "width") = bag_get_default(wm.properties, "width", "200")
    /\ KwValue(kw, "minwidth") = bag_get_default(wm.properties, "minwidth", "20")

\* the heading configuration of the child wm: an omitted text is the
\* child's identifier
IsHeadingConfigOf(kw, wm) ==
    /\ \E i \in DOMAIN kw : kw[i].name = "text"
    /\ KwValue(kw, "text") = bag_get_default(wm.properties, "text", wm.identifier)

\* C14: a tree builder object under which N column children have been
\* realized holds exactly N column configurations and exactly N heading
\* configurations, the k-th being the k-th child's, with the defaults for
\* the omitted properties, whatever the children's tree_column and visible
\* flags are.
C14_OneConfigurationPerColumnChild ==
    \A t \in TreesWithColumns :
        LET cs == Children(tree.nodes, t)
        IN  /\ Len(HeldColumns(t)) = Len(cs)
            /\ Len(HeldHeadings(t)) = Len(cs)
            /\ \A k \in DOMAIN cs :
                /\ IsColumnConfigOf(HeldColumns(t)[k].val, tree.nodes[cs[k]].wmeta)
                /\ IsHeadingConfigOf(HeldHeadings(t)[k].val, tree.nodes[cs[k]].wmeta)

----------------------------------------------------------------------------
(* Properties of the helper variants *)

\* the walk takes the step op on a node of a helper variant
HelperStep(op) ==
    /\ TreeWalking
    /\ tree'.pc = tree.pc + 1
    /\ TreeStep.op = op
    /\ \/ IsHelper(tree.nodes[TreeStep.node].cls)
       \/ IsTreeviewColumn(tree.nodes[TreeStep.node].cls)

\* C15: the helper variants (pane, tab, tree column) never create a widget:
\* realize makes no toolkit call and stores the parent's child-mounting
\* point as the helper's widget; configure and layout make no call and
\* change no builder object; add_child of a pane or tab makes exactly one
\* add call, on the borrowed parent widget, with the child's widget and the
\* helper node's own properties.
C15_HelpersCreateNoWidget ==
    [][LET i == TreeStep.node
           n == tree.nodes[i]
       IN  /\ HelperStep("realize") =>
                /\ calls' = calls
                /\ tree'.nodes[i].widget = get_child_master(ParentOf(tree.nodes, i))
                /\ tree'.nodes[i].widget # NoWidget
           /\ (HelperStep("configure") \/ HelperStep("layout")) =>
                /\ calls' = calls
                /\ log' = log
                /\ tree'.nodes = tree.nodes
           /\ (HelperStep("add_child") /\ IsHelper(n.cls)) =>
                /\ Len(calls') = Len(calls) + 1
                /\ SubSeq(calls', 1, Len(calls)) = calls
                /\ LET c == calls'[Len(calls')]
                   IN  /\ c.op = "add"
                       /\ c.widget = tree.nodes[n.parent].widget
                       /\ c.pos = <<tree.nodes[TreeStep.child].widget>>
                       /\ Len(c.kw) = Len(n.wmeta.properties)
                       /\ \A k \in DOMAIN c.kw :
                            /\ c.kw[k].name = n.wmeta.properties[k].name
                            /\ c.kw[k].value.v = n.wmeta.properties[k].value]_vars

\* a pane with a weight whose child was just added to the paned window
C15_Witness ==
    /\ phase = "tree"
    /\ result.op = "add_child"
    /\ Len(calls) > 0
    /\ LET c == calls[Len(calls)]
       IN  /\ c.op = "add"
           /\ c.kw = <<KW("weight", Str("1"))>>
           /\ \E i \in DOMAIN tree.nodes :
                /\ tree.nodes[i].cls = "TTKPanedwindowPane"
                /\ tree.nodes[i].widget = c.widget
                /\ tree.nodes[tree.nodes[i].parent].widget = c.widget
                /\ \E j \in DOMAIN tree.nodes :
                    tree.nodes[j].parent = i /\ c.pos = <<tree.nodes[j].widget>>

----------------------------------------------------------------------------
(* Properties of the paned-window container *)

\* the constructor calls made
InitCalls == SelectSeq(calls, LAMBDA c : c.op = "init")

\* the values passed for keyword name in call c
KwValues(c, name) == {c.kw[i].value.v : i \in {j \in DOMAIN c.kw : c.kw[j].name = name}}
KwCount(c, name) == Cardinality({j \in DOMAIN c.kw : c.kw[j].name = name})

\* C16: realizing a paned-window container passes orient to the
\* constructor exactly once: "vertical" when the bag has no orient, the
\* bag's value otherwise.
C16_OrientDefaultsToVertical ==
    (bo.cls = "TTKPanedwindow" /\ result.op # "none") =>
        /\ Len(InitCalls) = 1
        /\ KwCount(InitCalls[1], "orient") = 1
        /\ KwValues(InitCalls[1], "orient") =
              {bag_get_default(wmeta.properties, "orient", "vertical")}

\* a paned window whose bag has no orient was constructed
C16_Witness ==
    /\ bo.cls = "TTKPanedwindow"
    /\ phase = "realized"
    /\ "orient" \notin bag_names(wmeta.properties)
    /\ Len(InitCalls) = 1
    /\ InitCalls[1].ok
    /\ KwValues(InitCalls[1], "orient") = {"vertical"}

----------------------------------------------------------------------------
(* Properties of the code-generation mirror *)

KwNames(c) == {c.kw[i].name : i \in DOMAIN c.kw}

\* realize and code_realize have both returned
BothRealized ==
    /\ phase # "new"
    /\ ~code.code_realize.isNone
    /\ ~code.code_realize.val.raised

\* C17: code_realize mirrors realize: the constructor statement it emits
\* names the same set of keyword arguments that realize passes to the
\* constructor (defaulted arguments included), and it emits no statement
\* exactly when realize constructs nothing.
C17_CodeRealizeMirrorsRealize ==
    BothRealized =>
        LET lines == code.code_realize.val.lines
        IN  /\ (lines = <<>>) <=> (InitCalls = <<>>)
            /\ Len(lines) <= 1 /\ Len(InitCalls) <= 1
            /\ (lines # <<>> /\ InitCalls # <<>>) =>
                  KwNames(lines[1]) = KwNames(InitCalls[1])

\* configure and code_configure have both returned
BothConfigured ==
    /\ phase = "realized"
    /\ nops.configure > 0
    /\ ~code.code_configure.isNone
    /\ ~code.code_configure.val.raised

\* the item assignments made on the widget for a property of the bag: not
\* the unlocking of an entry that is not in state normal before its content
\* is deleted, and not the restoring of its state after the insert
OwnAssignments ==
    {i \in DOMAIN calls :
        /\ calls[i].op = "setitem"
        /\ ~(/\ i < Len(calls)
             /\ calls[i + 1].op = "delete"
             /\ widget_option(SubSeq(calls, 1, i - 1), bo.widget, "state", "normal")
                    # "normal")
        /\ ~(i > 1 /\ calls[i - 1].op = "insert")}

\* the property names configure set on the widget: the items assigned,
\* and "text" when an entry's content was inserted
ConfiguredNames ==
    UNION {KwNames(calls[i]) : i \in OwnAssignments}
    \cup (IF \E i \in DOMAIN calls : calls[i].op = "insert" THEN {"text"} ELSE {})

\* the property names the statements assign: the keywords of the configure
\* statements, and "text" when an entry's content is inserted
AssignedNames(lines) ==
    UNION {KwNames(lines[i]) : i \in {k \in DOMAIN lines : lines[k].op = "configure"}}
    \cup (IF \E i \in DOMAIN lines : lines[i].op = "insert" THEN {"text"} ELSE {})

\* C18: code_configure mirrors configure: the property names its
\* statements assign are the property names configure sets on the widget;
\* read-only, command and undeclared properties are assigned by neither.
C18_CodeConfigureMirrorsConfigure ==
    BothConfigured =>
        LET lines == code.code_configure.val.lines
        IN  /\ AssignedNames(lines) = ConfiguredNames
            /\ AssignedNames(lines) \cap SeqToSet(ro_properties(bo.cls)) = {}
            /\ AssignedNames(lines) \cap SeqToSet(command_properties(bo.cls)) = {}
            /\ AssignedNames(lines) \subseteq properties(bo.cls)

\* layout and code_layout have both returned or raised
BothLaidOut ==
    /\ result.op = "layout"
    /\ ~code.code_layout.isNone

PlacementOps == {"grid", "pack", "place"}
PropagateOps == {"grid_propagate", "pack_propagate", "place_propagate", "None_propagate"}

\* the operations of s (calls or statements) among ops
OpsAmong(s, ops) == {s[i].op : i \in DOMAIN s} \cap ops

\* C19: code_layout mirrors layout: code_layout fails exactly when layout
\* raises (unknown layout manager, missing container manager); otherwise it
\* emits a placement statement for the same manager as layout applies, and
\* a propagation-off statement exactly when layout turns propagation off.
C19_CodeLayoutMirrorsLayout ==
    BothLaidOut =>
        /\ code.code_layout.val.raised <=> result.raised
        /\ ~result.raised =>
              LET lines == code.code_layout.val.lines
              IN  /\ OpsAmong(lines, PlacementOps) = OpsAmong(calls, PlacementOps)
                  /\ OpsAmong(lines, PropagateOps) = OpsAmong(calls, PropagateOps)

\* node i goes from not realized to realized in this step
BecomesRealized(i) == ~tree.nodes[i].realized /\ tree'.nodes[i].realized

\* the constructor calls this step adds to the record
NewInitCalls == SelectSeq(SubSeq(calls', Len(calls) + 1, Len(calls')), LAMBDA c : c.op = "init")

\* C20: in a tree build every node is realized strictly after its parent:
\* when a node becomes realized, its parent is already realized and holds a
\* widget, and the node is mounted on the parent's child-mounting point (the
\* parent's own widget, or the widget a helper parent borrowed); the root is
\* mounted on the caller's master; no node is mounted on an unset widget.
C20_ParentRealizedBeforeChild ==
    [][\A i \in DOMAIN tree.nodes :
          BecomesRealized(i) =>
              LET j == tree.nodes[i].parent
                  mount == IF j = 0 THEN parent.widget ELSE tree.nodes[j].widget
              IN  /\ j # 0 => tree.nodes[j].realized
                  /\ mount # NoWidget
                  /\ tree'.nodes[i].master = mount
                  /\ \A k \in DOMAIN NewInitCalls : NewInitCalls[k].pos[2] = mount
                  /\ \A c \in DOMAIN tree.nodes :
                        tree.nodes[c].parent = i => ~tree.nodes[c].realized]_vars

\* a widget was constructed under a helper parent, on the widget the helper
\* borrowed from its own parent
C20_Witness ==
    \E i \in DOMAIN tree.nodes :
        LET j == tree.nodes[i].parent
        IN  /\ j # 0
            /\ tree.nodes[i].realized
            /\ tree.nodes[j].realized
            /\ IsHelper(tree.nodes[j].cls)
            /\ tree.nodes[j].widget = tree.nodes[tree.nodes[j].parent].widget
            /\ tree.nodes[i].master = tree.nodes[j].widget
            /\ \E k \in DOMAIN calls :
                  /\ calls[k].op = "init"
                  /\ calls[k].widget = tree.nodes[i].widget
                  /\ calls[k].pos[2] = tree.nodes[j].widget

\* a step of a builder-object operation: it changes the node, its record of
\* toolkit calls, its generated code, or the count of one of its operations
BuilderObjectStep ==
    \/ nodeVars' # nodeVars
    \/ \E f \in DOMAIN nops \ {"register_property"} : nops'[f] # nops[f]

\* C21: the two registries are read-only after registration: no step of a
\* builder-object operation (factory, realize, configure, layout, add_child,
\* connect_commands, connect_bindings, code_realize, code_configure,
\* code_layout) changes CLASS_MAP or CUSTOM_PROPERTIES; a step that changes
\* one of them is a registration and leaves the node alone.
C21_RegistriesReadOnlyAfterRegistration ==
    [][/\ BuilderObjectStep => UNCHANGED <<CLASS_MAP, CUSTOM_PROPERTIES>>
       /\ (CLASS_MAP' # CLASS_MAP \/ CUSTOM_PROPERTIES' # CUSTOM_PROPERTIES) =>
             /\ UNCHANGED nodeVars
             /\ wcalls' # wcalls \/ lastReg' # lastReg]_vars

\* registrations were made, and the node has been through its operations
C21_Witness ==
    /\ CLASS_MAP # StdClassMap \/ CUSTOM_PROPERTIES # EmptyDict
    /\ phase = "realized"
    /\ nops.configure > 0 /\ nops.layout > 0 /\ nops.add_child > 0
    /\ nops.connect_commands > 0 /\ nops.connect_bindings > 0
    /\ ~code.code_realize.isNone /\ ~code.code_configure.isNone /\ ~code.code_layout.isNone

\* code_configure has returned its statements
CodeConfigured == ~code.code_configure.isNone /\ ~code.code_configure.val.raised

\* the configure statements among lines, in order
ConfigureStmts(lines) == SelectSeq(lines, LAMBDA l : l.op = "configure")

\* the keyword names of a sequence of statements, in the order written
RECURSIVE StmtKwNames(_)
StmtKwNames(lines) ==
    IF lines = <<>> THEN <<>>
    ELSE [i \in DOMAIN Head(lines).kw |-> Head(lines).kw[i].name] \o StmtKwNames(Tail(lines))

\* the place of a name in sorted order
NameRank(n) == CHOOSE i \in DOMAIN SortedNames : SortedNames[i] = n

\* the names of the bag whose code is one scalar (a keyword argument)
ScalarNames(cls, props) ==
    {n \in bag_names(props) :
        /\ n \notin SeqToSet(ro_properties(cls))
        /\ n \notin SeqToSet(command_properties(cls))
        /\ ~(IsEntryBaseBO(cls) /\ n = "text")}

\* the bag with its entries at i and i + 1 exchanged
SwapAt(s, i) ==
    [k \in DOMAIN s |-> IF k = i THEN s[i + 1] ELSE IF k = i + 1 THEN s[i] ELSE s[k]]

\* the configure statements code_configure returns for the bag props
ConfigureStmtsOf(props) ==
    ConfigureStmts(code_configure(bo.cls, [wmeta EXCEPT !.properties = props],
                                  [code EXCEPT !.code_configure = NoneArg])
                        .code_configure.val.lines)

\* C22: code_configure is deterministic in the bag's contents: the scalar
\* properties are written sorted by name, at most four per configure
\* statement, in ceil(k/4) statements for k scalar properties, each in
\* exactly one statement; the statements of complex properties come after
\* the configure statements; and exchanging two neighbouring entries of the
\* bag (hence any reordering) leaves the configure statements the same.
C22_CodeConfigureDeterministic ==
    CodeConfigured =>
        LET lines == code.code_configure.val.lines
            stmts == ConfigureStmts(lines)
            names == StmtKwNames(stmts)
            k == Cardinality(ScalarNames(bo.cls, wmeta.properties))
        IN  /\ Len(stmts) = (k + 3) \div 4
            /\ \A i \in DOMAIN stmts : Len(stmts[i].kw) \in 1..4
            /\ SeqToSet(names) = ScalarNames(bo.cls, wmeta.properties)
            /\ \A i, j \in DOMAIN names :
                  i < j => NameRank(names[i]) < NameRank(names[j])
            /\ \A i, j \in DOMAIN lines :
                  (lines[i].op = "configure" /\ lines[j].op # "configure") => i < j
            /\ \A i \in 1..(Len(wmeta.properties) - 1) :
                  ConfigureStmtsOf(SwapAt(wmeta.properties, i)) = stmts

\* five scalar properties, not in sorted order in the bag, fill two
\* configure statements, which are followed by the statements of a complex
\* property
C22_Witness ==
    /\ CodeConfigured
    /\ Len(ConfigureStmts(code.code_configure.val.lines)) = 2
    /\ \E i \in DOMAIN code.code_configure.val.lines :
          code.code_configure.val.lines[i].op = "insert"
    /\ \E i \in 1..(Len(wmeta.properties) - 1) :
          NameRank(wmeta.properties[i].name) > NameRank(wmeta.properties[i + 1].name)

\* the command properties of the bag whose callback name is empty or blank
BlankCommands ==
    {pn \in SeqToSet(command_properties(bo.cls)) \cap bag_names(wmeta.properties) :
        strip(CommandName(pn)) = ""}

\* the declared command properties whose callback name the bag does not hold
UnresolvedCommands == {pn \in DeclaredCommands : CommandName(pn) \notin DOMAIN cmd_bag.names}

\* how often name occurs in the sequence s
Occurrences(s, name) == Cardinality({i \in DOMAIN s : s[i] = name})

\* C23: connect_commands treats a command property whose callback name is
\* empty or blank as absent: it is neither connected nor listed; the result
\* is None exactly when no declared command name is unresolved, and
\* otherwise a (non-empty) list that holds each unresolved name once per
\* command property that uses it, and nothing else.
C23_BlankSkippedAndNoneWhenAllResolved ==
    result.op = "connect_commands" =>
        /\ \A pn \in BlankCommands :
            /\ CallsWith("configure", bo.widget, pn) = {}
            /\ CommandName(pn) \notin NotConnected
        /\ result.ret.isNone <=> UnresolvedCommands = {}
        /\ ~result.ret.isNone =>
            /\ result.ret.val # <<>>
            /\ \A name \in NotConnected \cup {CommandName(pn) : pn \in UnresolvedCommands} :
                  Occurrences(result.ret.val, name)
                    = Cardinality({pn \in UnresolvedCommands : CommandName(pn) = name})

\* an entry with a blank validatecommand and an invalidcommand whose name the
\* bag does not hold: only the second is listed
C23_Witness ==
    /\ result.op = "connect_commands"
    /\ "validatecommand" \in BlankCommands
    /\ "invalidcommand" \in UnresolvedCommands
    /\ result.ret = Some(<<CommandName("invalidcommand")>>)

\* C24: a fatal layout error leaves no partial geometry effect: whenever
\* layout raises (unknown layout manager, or missing container manager), that
\* layout call has made no geometry-manager call and no container-policy
\* call on the target widget.
C24_LayoutErrorLeavesNoGeometry ==
    (result.op = "layout" /\ result.raised) =>
        /\ GeometryCalls = <<>>
        /\ PolicyCalls = <<>>

\* the column children of tree node t that have been realized, in declared
\* order
RealizedColumns(t) ==
    SelectSeq(Children(tree.nodes, t),
              LAMBDA j : IsTreeviewColumn(tree.nodes[j].cls) /\ tree.nodes[j].realized)

\* the flags of a column child, as its properties give them
IsTreeColumn(j) ==
    bag_get_default(tree.nodes[j].wmeta.properties, "tree_column", "false")
        \in {"true", "True", "TRUE"}
IsVisible(j) ==
    bag_get_default(tree.nodes[j].wmeta.properties, "visible", "true")
        \in {"true", "True", "TRUE"}

\* the identifiers of the nodes js
IdsOf(js) == [k \in DOMAIN js |-> tree.nodes[js[k]].wmeta.identifier]

\* the display columns and the columns expected of tree node t
ExpectedDisplayColumns(t) ==
    IdsOf(SelectSeq(RealizedColumns(t), LAMBDA j : IsVisible(j) /\ ~IsTreeColumn(j)))
ExpectedColumns(t) ==
    IdsOf(SelectSeq(RealizedColumns(t), LAMBDA j : ~IsTreeColumn(j)))

\* the configure calls that pass the columns to the widget of tree node t
ColumnsCalls(t) ==
    SelectSeq(calls, LAMBDA c : /\ c.op = "configure"
                                /\ c.widget = tree.nodes[t].widget
                                /\ \E i \in DOMAIN c.kw : c.kw[i].name = "columns")

\* the list passed for keyword name in call c
KwList(c, name) == c.kw[CHOOSE i \in DOMAIN c.kw : c.kw[i].name = name].value.a

NoDuplicates(s) == \A i, j \in DOMAIN s : s[i] = s[j] => i = j

\* C25: once column children (with unique identifiers) have been
\* accumulated by set_column, the tree's display-column list is the
\* identifiers of the children that are visible and are not the tree column,
\* in declared order and without duplicates; the columns passed to the widget
\* are the column ids in declared order without "#0", the display columns
\* passed are that display-column list, and every display column is one of
\* the columns.
C25_DisplayColumnsAreVisibleNonTreeColumns ==
    \A t \in DOMAIN tree.nodes :
        (IsTreeview(tree.nodes[t].cls) /\ RealizedColumns(t) # <<>>) =>
            LET n == tree.nodes[t]
            IN  /\ ~n._dcolumns.isNone /\ ~n._columns.isNone
                /\ n._dcolumns.val = ExpectedDisplayColumns(t)
                /\ NoDuplicates(n._dcolumns.val)
                /\ SeqToSet(n._dcolumns.val)
                      \subseteq SeqToSet(od_keys(n._columns.val)) \ {"#0"}
                /\ \A k \in DOMAIN ColumnsCalls(t) :
                      LET c == ColumnsCalls(t)[k]
                      IN  /\ KwList(c, "columns") = ExpectedColumns(t)
                          /\ KwList(c, "displaycolumns") = ExpectedDisplayColumns(t)
                          /\ SeqToSet(KwList(c, "displaycolumns"))
                                \subseteq SeqToSet(KwList(c, "columns"))

\* a tree with a tree column or a hidden column besides a displayed one,
\* configured: the columns were passed to the widget
C25_Witness ==
    \E t \in DOMAIN tree.nodes :
        /\ IsTreeview(tree.nodes[t].cls)
        /\ Len(RealizedColumns(t)) = 2
        /\ Len(ExpectedDisplayColumns(t)) = 1
        /\ ColumnsCalls(t) # <<>>

====
